---- MODULE Spec2Model ----
(***************************************************************************)
(* The five edge-function request handlers of the AI Productivity Hub      *)
(* (ai-support-chat, ai-habit-insights, ai-knowledge-query,                *)
(* ai-ats-optimizer, ai-job-assistant).  One inbound request is followed   *)
(* from its arrival through the handler's awaits (req.json(), fetch,       *)
(* response.text() / response.json()) to the Response it returns.          *)
(*                                                                         *)
(* Further specifications follow the handlers: the tables and their row    *)
(* level security (SpecDb), the Habit Tracker's toggleHabit (SpecHabits),  *)
(* the Customer Support screen's sendMessage (SpecChat), and the Job       *)
(* Assistant, ATS Optimizer and Knowledge Workspace screens (SpecScreens). *)
(*                                                                         *)
(* A completion text is a sequence of tokens:                              *)
(*   "{"  "}"   the two brace characters the extraction regex looks for    *)
(*   "m"        the text of one scalar member,           "a":1             *)
(*   "k"        the text of a key awaiting an object,    "k":              *)
(*   "x"        any other character (prose)                                *)
(***************************************************************************)
EXTENDS Integers, Sequences, FiniteSets, TLC

VARIABLES
    apiKey,     \* Deno.env.get("LOVABLE_API_KEY"): "<unset>", "" or a key
    pc,         \* where the handler of the current request is suspended
    req,        \* the inbound request: handler, method, body
    inflight,   \* the chat-completion request on its way to the gateway
    calls,      \* number of fetch calls made for the current request
    gw,         \* the gateway's response as far as the handler has seen it
    trace,      \* what the handler did for the current request
    log,        \* console output of the current request
    resp,       \* the Response returned for the current request
    db,         \* the rows of the database tables
    actor,      \* auth.uid() of the last database operation
    seen,       \* the rows the last SELECT returned
    habit_logs, \* the rows of the habit_logs table
    tracker,    \* the Habit Tracker screen of each browser tab
    toggles,    \* number of toggleHabit calls made so far
    support_conversations,  \* the rows of the support_conversations table
    chat,       \* the Customer Support screen of each browser tab
    turns,      \* number of sendMessage calls that passed the guard so far
    tables,     \* the rows of documents, document_queries, job_applications
                \* and ats_scans
    sent,       \* the commands the screens have sent to those tables
    job,        \* the Job Assistant screen
    ats,        \* the ATS Optimizer screen
    knowledge,  \* the Knowledge Workspace screen
    runs,       \* number of calls of the screens' handlers made so far
    insight,    \* the insights panel of the Habit Tracker screen
    route       \* the path of the page the first tab shows

handlerVars == <<apiKey, pc, req, inflight, calls, gw, trace, log, resp>>
dbVars == <<db, actor, seen>>
habitVars == <<habit_logs, tracker, toggles>>
chatVars == <<support_conversations, chat, turns>>
screenVars == <<tables, sent, job, ats, knowledge, runs>>
insightVars == <<insight>>
routeVars == <<route>>

vars ==
    <<handlerVars, dbVars, habitVars, chatVars, screenVars, insightVars,
      routeVars>>

\* What each part of the system leaves alone.
outsideHandlers ==
    <<dbVars, habitVars, chatVars, screenVars, insightVars, routeVars>>
outsideDb ==
    <<handlerVars, habitVars, chatVars, screenVars, insightVars, routeVars>>
outsideHabits ==
    <<handlerVars, dbVars, chatVars, screenVars, insightVars, routeVars>>
outsideChat ==
    <<handlerVars, dbVars, habitVars, screenVars, insightVars, routeVars>>
outsideScreens ==
    <<handlerVars, dbVars, habitVars, chatVars, insightVars, routeVars>>
outsideInsights == <<handlerVars, dbVars, habitVars, chatVars, routeVars>>

----------------------------------------------------------------------------
(* Bounds *)

MaxLen == 5    \* longest completion text, in tokens
MaxHabits == 2 \* longest habits array of a request
MaxToggles == 4 \* most toggleHabit calls of a run
MaxTurns == 2  \* most sendMessage calls of a run that pass the guard
MaxRuns == 3   \* most calls of the handlers of the three other screens
MaxHistory == 2 \* longest conversationHistory array of a request

----------------------------------------------------------------------------
(* The five handlers and their inputs *)

Handlers ==
    {"ai-support-chat", "ai-habit-insights", "ai-knowledge-query",
     "ai-ats-optimizer", "ai-job-assistant"}

Methods == {"OPTIONS", "POST", "GET"}

\* Values the environment variable can have; Deno.env.get gives undefined
\* when it is unset.
Unset == "<unset>"
ApiKeys == {Unset, "", "sk-key"}

\* What a request field can hold, as far as the prompt code can tell:
\* absent (undefined or null), an array, a non-empty string, a plain object.
TextShapes == {"absent", "string"}
ArrayShapes == {"absent", "array", "string", "object"}
ObjectShapes == {"absent", "object"}

\* The fields each handler destructures from the request body.
FieldShapes(h) ==
    CASE h = "ai-support-chat" ->
           [message |-> TextShapes, conversationHistory |-> ArrayShapes,
            knowledgeBase |-> ArrayShapes]
      [] h = "ai-habit-insights" ->
           [habits |-> ArrayShapes, logs |-> ArrayShapes]
      [] h = "ai-knowledge-query" ->
           [query |-> TextShapes, documents |-> ArrayShapes]
      [] h = "ai-ats-optimizer" ->
           [resumeContent |-> TextShapes, targetRole |-> TextShapes]
      [] h = "ai-job-assistant" ->
           [resumeContent |-> TextShapes, jobDescription |-> TextShapes,
            settings |-> ObjectShapes]

\* The value of a request field: its shape and, for an array whose elements
\* the prompt code reads, the elements.
Field(shape, items) == [shape |-> shape, items |-> items]

\* The elements of the habits array: { name, frequency } as the Habit Tracker
\* sends them.
HabitNames == {"Meditate", "Read"}
Frequencies == {"daily", "weekly"}
HabitRecords == [name : HabitNames, frequency : Frequencies]

RECURSIVE HabitListsOfLen(_)
HabitListsOfLen(n) ==
    IF n = 0 THEN {<<>>}
    ELSE {Append(l, h) : l \in HabitListsOfLen(n - 1), h \in HabitRecords}

HabitLists == UNION {HabitListsOfLen(n) : n \in 0..MaxHabits}

\* The elements of the conversationHistory array: chat messages as the
\* Customer Support screen keeps them, { role, content, timestamp }.
HistoryRoles == {"user", "assistant"}
HistoryRecords == [role : HistoryRoles, content : {"hello"}, timestamp : {"t0"}]

RECURSIVE HistoriesOfLen(_)
HistoriesOfLen(n) ==
    IF n = 0 THEN {<<>>}
    ELSE {Append(l, msg) : l \in HistoriesOfLen(n - 1), msg \in HistoryRecords}

Histories == UNION {HistoriesOfLen(n) : n \in 0..MaxHistory}

\* The values field n of a request to handler h can hold.
FieldValues(h, n) ==
    IF h = "ai-habit-insights" /\ n = "habits"
    THEN {Field(shape, <<>>) : shape \in FieldShapes(h)[n] \ {"array"}}
         \cup {Field("array", l) : l \in HabitLists}
    ELSE IF h = "ai-support-chat" /\ n = "conversationHistory"
    THEN {Field(shape, <<>>) : shape \in FieldShapes(h)[n] \ {"array"}}
         \cup {Field("array", l) : l \in Histories}
    ELSE {Field(shape, <<>>) : shape \in FieldShapes(h)[n]}

\* A request body: not JSON at all (or no body), the JSON value null, or a
\* JSON value whose fields have the given values.  A GET request has no body.
Bodies(h, method) ==
    IF method = "GET" THEN {[kind |-> "invalid", fields |-> <<>>]}
    ELSE
    {[kind |-> "invalid", fields |-> <<>>], [kind |-> "null", fields |-> <<>>]}
    \cup
    {[kind |-> "object", fields |-> f] :
        f \in {g \in [DOMAIN FieldShapes(h) ->
                         UNION {FieldValues(h, n) : n \in DOMAIN FieldShapes(h)}] :
                 \A n \in DOMAIN g : g[n] \in FieldValues(h, n)}}

Tokens == {"{", "}", "m", "k", "x"}

RECURSIVE TextsOfLen(_)
TextsOfLen(n) ==
    IF n = 0 THEN {<<>>}
    ELSE {Append(t, c) : t \in TextsOfLen(n - 1), c \in Tokens}

Texts == UNION {TextsOfLen(n) : n \in 0..MaxLen}

GatewayStatuses == {200, 201, 400, 402, 429, 500, 503}

----------------------------------------------------------------------------
(* Responses *)

corsHeaders ==
    {<<"Access-Control-Allow-Origin", "*">>,
     <<"Access-Control-Allow-Headers",
       "authorization, x-client-info, apikey, content-type">>}

JsonHeaders == corsHeaders \cup {<<"Content-Type", "application/json">>}

NullBody == [type |-> "null"]
JsonBody(v) == [type |-> "json", value |-> v]

NoResponse == [status |-> 0, headers |-> {}, body |-> NullBody]

\* A pre-flight answered with 204 No Content.
PreflightResponse_204 ==
    [status |-> 204, headers |-> corsHeaders, body |-> NullBody]

\* new Response(null, { headers: corsHeaders }): the status defaults to 200.
PreflightResponse ==
    [status |-> 200, headers |-> corsHeaders, body |-> NullBody]

\* new Response(JSON.stringify(result), { headers: {...corsHeaders, ...} })
SuccessResponse(result) ==
    [status |-> 200, headers |-> JsonHeaders, body |-> JsonBody(result)]

\* A mapped status answered without the status option: 200 by default.
MappedErrorResponse_NoStatus(status, text) ==
    [status |-> 200, headers |-> JsonHeaders,
     body |-> JsonBody([error |-> text])]

\* The fixed responses of the status mapping.
MappedErrorResponse(status, text) ==
    [status |-> status, headers |-> JsonHeaders,
     body |-> JsonBody([error |-> text])]

\* An outer catch that sets the content type and leaves out ...corsHeaders.
CatchResponse_NoCors(message) ==
    [status |-> 500, headers |-> {<<"Content-Type", "application/json">>},
     body |-> JsonBody([error |-> message])]

\* An outer catch that hides the error behind one fixed message.
CatchResponse_GenericMessage(message) ==
    [status |-> 500, headers |-> JsonHeaders,
     body |-> JsonBody([error |-> "Internal server error"])]

\* The outer catch: status 500 with the caught error's message.
CatchResponse(message) ==
    [status |-> 500, headers |-> JsonHeaders,
     body |-> JsonBody([error |-> message])]

\* throw new Error(`AI gateway error: ${response.status}`), caught by the
\* outer catch.
GatewayErrorMessage(status) == "AI gateway error: " \o ToString(status)

\* The gateway's status passed on as the handler's own.
GatewayFailureResponse_PassThrough(status) ==
    [status |-> status, headers |-> JsonHeaders,
     body |-> JsonBody([error |-> GatewayErrorMessage(status)])]

GatewayFailureResponse(status) == CatchResponse(GatewayErrorMessage(status))

RateLimitMessage == "Rate limit exceeded. Please try again later."
CreditsMessage == "AI credits exhausted. Please add funds."
NotConfiguredMessage == "LOVABLE_API_KEY is not configured"

\* Messages of the errors the runtime raises.
BodyParseMessage == "Unexpected end of JSON input"
DestructureMessage == "Cannot destructure property of null"
NotAFunctionMessage == "map is not a function"
NetworkMessage == "error sending request"
BodyReadMessage == "error reading a body from connection"
EnvelopeParseMessage == "Unexpected token in JSON"

----------------------------------------------------------------------------
(* Response extraction: content.match(/\{[\s\S]*\}/) and JSON.parse *)

Positions(text, c) == {i \in 1..Len(text) : text[i] = c}

Min(S) == CHOOSE i \in S : \A j \in S : i <= j
Max(S) == CHOOSE i \in S : \A j \in S : j <= i

\* A lazy quantifier in place of the greedy one, /\{[\s\S]*?\}/: the match
\* ends at the first "}" after the leftmost "{".
JsonMatch_Lazy(content) ==
    LET opens == Positions(content, "{")
        closes == Positions(content, "}")
    IN  IF opens # {} /\ closes # {} /\ Min(opens) < Max(closes)
        THEN [ok |-> TRUE,
              span |-> SubSeq(content, Min(opens),
                              Min({j \in closes : j > Min(opens)}))]
        ELSE [ok |-> FALSE, span |-> <<>>]

\* The regex matches from the leftmost "{" that has a "}" after it, and,
\* being greedy, up to the last "}" of the text.  The result is the matched
\* span, with ok = FALSE when the regex does not match (match gives null).
JsonMatch(content) ==
    LET opens == Positions(content, "{")
        closes == Positions(content, "}")
    IN  IF opens # {} /\ closes # {} /\ Min(opens) < Max(closes)
        THEN [ok |-> TRUE, span |-> SubSeq(content, Min(opens), Max(closes))]
        ELSE [ok |-> FALSE, span |-> <<>>]

\* JavaScript values produced by JSON.parse: an object is the list of its
\* members; a member is the scalar member "a":1 or "k": with an object.
ParsedObject(members) == [type |-> "object", members |-> members]
ScalarMember == [key |-> "a", scalar |-> TRUE, object |-> <<>>]
ObjectMember(obj) == [key |-> "k", scalar |-> FALSE, object |-> <<obj>>]

ParseFailure == [ok |-> FALSE, value |-> ParsedObject(<<>>), next |-> 0]

\* Recursive descent over the token grammar
\*   object ::= "{" "}"  |  "{" member "}"
\*   member ::= "m"      |  "k" object
\* starting at position i; next is the position after the object.
RECURSIVE ParseObjectAt(_, _)
ParseObjectAt(s, i) ==
    IF i + 1 > Len(s) \/ s[i] # "{" THEN ParseFailure
    ELSE IF s[i + 1] = "}"
         THEN [ok |-> TRUE, value |-> ParsedObject(<<>>), next |-> i + 2]
    ELSE IF s[i + 1] = "m"
         THEN IF i + 2 <= Len(s) /\ s[i + 2] = "}"
              THEN [ok |-> TRUE, value |-> ParsedObject(<<ScalarMember>>),
                    next |-> i + 3]
              ELSE ParseFailure
    ELSE IF s[i + 1] = "k"
         THEN LET inner == ParseObjectAt(s, i + 2)
              IN  IF inner.ok /\ inner.next <= Len(s) /\ s[inner.next] = "}"
                  THEN [ok |-> TRUE,
                        value |-> ParsedObject(<<ObjectMember(inner.value)>>),
                        next |-> inner.next + 1]
                  ELSE ParseFailure
    ELSE ParseFailure

\* A lenient parser that reads one value from the front of s and ignores
\* whatever follows it.
JSONParse_Prefix(s) ==
    LET r == ParseObjectAt(s, 1)
    IN  IF r.ok
        THEN [ok |-> TRUE, value |-> r.value]
        ELSE [ok |-> FALSE, value |-> ParsedObject(<<>>)]

\* JSON.parse(s): the whole of s must be one value; ok = FALSE when it throws.
JSONParse(s) ==
    LET r == ParseObjectAt(s, 1)
    IN  IF r.ok /\ r.next = Len(s) + 1
        THEN [ok |-> TRUE, value |-> r.value]
        ELSE [ok |-> FALSE, value |-> ParsedObject(<<>>)]

\* The object each handler uses when the regex does not match
\* (the right-hand side of "jsonMatch ? ... : ...").
NoMatchFallback(h, content) ==
    CASE h = "ai-support-chat" -> [reply |-> content, shouldEscalate |-> FALSE]
      [] h = "ai-habit-insights" ->
           [insights |-> <<[type |-> "suggestion", message |-> content]>>]
      [] h = "ai-knowledge-query" ->
           [answer |-> content, citations |-> <<>>, confidence |-> "medium"]
      [] h = "ai-ats-optimizer" -> [score |-> 50, suggestions |-> <<>>]
      [] h = "ai-job-assistant" ->
           [bullets |-> <<>>, coverLetter |-> content, summary |-> ""]

\* A catch block that repeats the object of the no-match branch.
CatchFallback_AsNoMatch(h, content) == NoMatchFallback(h, content)

\* The object each handler uses when JSON.parse throws (the catch block).
CatchFallback(h, content) ==
    CASE h = "ai-support-chat" -> [reply |-> content, shouldEscalate |-> FALSE]
      [] h = "ai-habit-insights" ->
           [insights |-> <<[type |-> "suggestion", message |-> content]>>]
      [] h = "ai-knowledge-query" ->
           [answer |-> content, citations |-> <<>>, confidence |-> "medium"]
      [] h = "ai-ats-optimizer" ->
           [score |-> 50, suggestions |-> <<>>, rawAnalysis |-> content]
      [] h = "ai-job-assistant" ->
           [bullets |-> <<>>, coverLetter |-> content, summary |-> ""]

\* let result; try { ... } catch { ... }
ExtractResult(h, content) ==
    LET jsonMatch == JsonMatch(content)
    IN  IF ~jsonMatch.ok THEN NoMatchFallback(h, content)
        ELSE LET parsed == JSONParse(jsonMatch.span)
             IN  IF parsed.ok THEN parsed.value
                 ELSE CatchFallback(h, content)

\* data.choices?.[0]?.message?.content || ""
ContentOf(envelope) ==
    IF envelope.kind = "content" THEN envelope.content ELSE <<>>

----------------------------------------------------------------------------
(* Prompt construction *)

\* x?.length is truthy for a non-empty array and a non-empty string.
HasLength(shape) == shape \in {"array", "string"}
\* x.map(...) works on arrays only; on anything else it throws a TypeError.
Mappable(shape) == shape = "array"

\* The habits list with the frequencies left out: `- ${h.name}` per habit.
RECURSIVE HabitsInfo_NamesOnly(_)
HabitsInfo_NamesOnly(habits) ==
    IF habits = <<>> THEN <<>>
    ELSE <<Head(habits).name>> \o HabitsInfo_NamesOnly(Tail(habits))

\* habits.map(h => `- ${h.name} (${h.frequency})`).join('\n'): the texts
\* interpolated into the lines, in order.
RECURSIVE HabitsInfo(_)
HabitsInfo(habits) ==
    IF habits = <<>> THEN <<>>
    ELSE <<Head(habits).name, Head(habits).frequency>> \o HabitsInfo(Tail(habits))

\* The history passed on as it came: .map(msg => msg).
RECURSIVE HistoryMessages_WholeEntry(_)
HistoryMessages_WholeEntry(history) ==
    IF history = <<>> THEN <<>>
    ELSE <<Head(history)>> \o HistoryMessages_WholeEntry(Tail(history))

\* conversationHistory.map(msg => ({ role: msg.role, content: msg.content })).
RECURSIVE HistoryMessages(_)
HistoryMessages(history) ==
    IF history = <<>> THEN <<>>
    ELSE <<[role |-> Head(history).role, content |-> Head(history).content]>>
         \o HistoryMessages(Tail(history))

PromptFailure == [ok |-> FALSE, messages |-> <<>>]
Prompt(system, user) ==
    [ok |-> TRUE,
     messages |-> <<[role |-> "system", content |-> system]>> \o user]

\* The messages each handler builds from the destructured fields; ok = FALSE
\* when building them throws.  A message's content is the template it comes
\* from followed by what is interpolated into it: the shapes of the fields
\* and, for the habits, the texts of the list.
BuildPrompt(h, f) ==
    CASE h = "ai-support-chat" ->
           IF (HasLength(f.knowledgeBase.shape) /\ ~Mappable(f.knowledgeBase.shape))
              \/ (f.conversationHistory.shape # "absent"
                  /\ ~Mappable(f.conversationHistory.shape))
           THEN PromptFailure
           ELSE Prompt(<<"support-system", f.knowledgeBase.shape>>,
                       (IF f.conversationHistory.shape = "array"
                        THEN HistoryMessages(f.conversationHistory.items)
                        ELSE <<>>)
                       \o <<[role |-> "user",
                             content |-> <<"message", f.message.shape>>]>>)
      [] h = "ai-habit-insights" ->
           IF ~Mappable(f.habits.shape) \/ ~Mappable(f.logs.shape)
           THEN PromptFailure
           ELSE Prompt(<<"habits-system", "none">>,
                       <<[role |-> "user",
                          content |-> <<"habits-user">> \o HabitsInfo(f.habits.items)]>>)
      [] h = "ai-knowledge-query" ->
           IF HasLength(f.documents.shape) /\ ~Mappable(f.documents.shape)
           THEN PromptFailure
           ELSE Prompt(<<"knowledge-system", f.documents.shape>>,
                       <<[role |-> "user", content |-> <<"query", f.query.shape>>]>>)
      [] h = "ai-ats-optimizer" ->
           Prompt(<<"ats-system", "none">>,
                  <<[role |-> "user",
                     content |-> <<"ats-user", f.targetRole.shape \o "/"
                                               \o f.resumeContent.shape>>]>>)
      [] h = "ai-job-assistant" ->
           Prompt(<<"job-system", f.settings.shape>>,
                  <<[role |-> "user",
                     content |-> <<"job-user", f.resumeContent.shape \o "/"
                                               \o f.jobDescription.shape>>]>>)

----------------------------------------------------------------------------
(* The handler, one action per stretch of code between two awaits *)

\* The body of a request that has none to look at: before a request arrives,
\* and once the handler no longer uses what req.json() gave (after an early
\* throw, and after fetch has settled).
NoBody == [kind |-> "none", fields |-> <<>>]
NoRequest == [handler |-> "none", method |-> "none", body |-> NoBody]
\* The gateway's response as the handler has seen it: the status, and what
\* reading the body gave ("pending" until it is read; "lost" when the read
\* rejects; "text" for an error body; "invalid", "nochoices" or "content" for
\* the body of a 2xx response), with the completion text taken from it.
GatewayResponse(status, body, content) ==
    [status |-> status, body |-> body, content |-> content]
NoGateway == GatewayResponse(0, "none", <<>>)
NoTrace ==
    [bodyRead |-> FALSE, bodyParsed |-> FALSE, keyRead |-> FALSE,
     promptBuilt |-> FALSE, extracted |-> FALSE]
NoMessages == <<>>

\* A check against undefined only: LOVABLE_API_KEY === undefined.
KeyConfigured_UndefinedOnly(key) == key # Unset

\* if (!LOVABLE_API_KEY): undefined and the empty string are both falsy.
KeyConfigured(key) == key # Unset /\ key # ""

\* response.ok
Ok(status) == status >= 200 /\ status <= 299

\* The 402 branch present in every handler.
MappedStatuses_All402(h) == {429, 402}

\* The statuses a handler answers with a fixed message of its own.
MappedStatuses(h) ==
    IF h = "ai-job-assistant" THEN {429, 402} ELSE {429}

MappedMessage(status) ==
    IF status = 429 THEN RateLimitMessage ELSE CreditsMessage

LogEntry(text, status) == [text |-> text, status |-> status]

\* Leaves the try block through the outer catch.
Throw(message) ==
    /\ log' = Append(log, LogEntry("Error in " \o req.handler \o ":", 0))
    /\ resp' = CatchResponse(message)
    /\ pc' = "done"

\* The users of the application; auth.uid() of a signed-in session.
Users == {"A", "B"}

\* An empty database that nobody has queried.
DbAtRest ==
    /\ db = {}
    /\ actor = "A"
    /\ seen = {}

\* The browser tabs of one signed-in user.
Tabs == {1, 2}

\* A Habit Tracker that has loaded nothing, over an empty habit_logs table.
TrackerAtRest ==
    /\ habit_logs = {}
    /\ tracker = [tab \in Tabs |->
                    [logs |-> {}, pending |-> <<>>, error |-> FALSE]]
    /\ toggles = 0

\* A support conversation: a row of support_conversations, or its copy in a
\* screen.
Conversation(id, subject, messages) ==
    [id |-> id, subject |-> subject, messages |-> messages]

\* useState<SupportConversation | null>(null)
NoConversation == Conversation(0, <<>>, <<>>)

\* No sendMessage call is suspended.
NoCall == [stage |-> "none"]

\* A Customer Support screen that has loaded nothing, over an empty table.
ChatAtRest ==
    /\ support_conversations = {}
    /\ chat = [tab \in Tabs |->
                 [conversations |-> {}, activeConversation |-> NoConversation,
                  isSending |-> FALSE, toast |-> "none", call |-> NoCall]]
    /\ turns = 0

\* The call of a screen's handler that is not running.
Idle == [stage |-> "none"]

\* data of a call that failed: null.
NullData == [null |-> TRUE]

\* The result of a call that has not returned.
NoResult == [failed |-> FALSE, data |-> NullData]

\* A call of handleQuery with the variables of its closure: where it is
\* suspended, the query, and what the handler call gave.
QueryCall(stage, query, result) ==
    [stage |-> stage, query |-> query, result |-> result]

\* The Job Assistant, ATS Optimizer and Knowledge Workspace screens as they
\* mount, over empty tables.
ScreensAtRest ==
    /\ tables = [documents |-> {}, document_queries |-> {},
                 job_applications |-> {}, ats_scans |-> {}]
    /\ sent = <<>>
    /\ job = [isGenerating |-> FALSE, results |-> <<>>, toast |-> "none",
              call |-> Idle]
    /\ ats = [isAnalyzing |-> FALSE, result |-> <<>>, toast |-> "none",
              call |-> Idle]
    /\ knowledge = [documents |-> {}, isQuerying |-> FALSE, result |-> <<>>,
                    toast |-> "none", call |-> QueryCall("none", <<>>, NoResult)]
    /\ runs = 0

\* The insights panel of a Habit Tracker that has loaded no habits; the tab
\* shows the dashboard.
InsightsAtRest ==
    /\ insight = [habits |-> {}, fetchingInsights |-> FALSE, insights |-> <<>>,
                  toast |-> "none", call |-> Idle]
    /\ route = "/"

Init ==
    /\ apiKey \in ApiKeys
    /\ pc = "idle"
    /\ req = NoRequest
    /\ inflight = NoMessages
    /\ calls = 0
    /\ gw = NoGateway
    /\ trace = NoTrace
    /\ log = <<>>
    /\ resp = NoResponse
    /\ DbAtRest
    /\ TrackerAtRest
    /\ ChatAtRest
    /\ ScreensAtRest
    /\ InsightsAtRest

\* No request is being handled.
HandlersAtRest ==
    /\ apiKey = "sk-key"
    /\ pc = "idle"
    /\ req = NoRequest
    /\ inflight = NoMessages
    /\ calls = 0
    /\ gw = NoGateway
    /\ trace = NoTrace
    /\ log = <<>>
    /\ resp = NoResponse

\* A request arrives.  OPTIONS is answered at once; any other method enters
\* the try block and suspends on await req.json().
Receive(h, method, body) ==
    /\ pc = "idle"
    /\ req' = [handler |-> h, method |-> method, body |-> body]
    /\ IF method = "OPTIONS"
       THEN /\ resp' = PreflightResponse
            /\ pc' = "done"
       ELSE /\ resp' = NoResponse
            /\ pc' = "readBody"
    /\ UNCHANGED <<apiKey, inflight, calls, gw, trace, log>>
    /\ UNCHANGED outsideHandlers

\* await req.json() settles; then, without suspending: the destructuring, the
\* credential check, the prompt and the call of fetch.
BodyRead ==
    /\ pc = "readBody"
    /\ LET prompt == BuildPrompt(req.handler, req.body.fields)
       IN  IF req.body.kind = "invalid"
           THEN /\ Throw(BodyParseMessage)
                /\ trace' = [trace EXCEPT !.bodyRead = TRUE]
                /\ UNCHANGED <<inflight, calls>>
           ELSE IF req.body.kind = "null"
           THEN /\ Throw(DestructureMessage)
                /\ trace' = [trace EXCEPT !.bodyRead = TRUE]
                /\ UNCHANGED <<inflight, calls>>
           ELSE IF ~KeyConfigured(apiKey)
           THEN /\ Throw(NotConfiguredMessage)
                /\ trace' = [trace EXCEPT !.bodyRead = TRUE, !.bodyParsed = TRUE,
                                          !.keyRead = TRUE]
                /\ UNCHANGED <<inflight, calls>>
           ELSE IF ~prompt.ok
           THEN /\ Throw(NotAFunctionMessage)
                /\ trace' = [trace EXCEPT !.bodyRead = TRUE, !.bodyParsed = TRUE,
                                          !.keyRead = TRUE]
                /\ UNCHANGED <<inflight, calls>>
           ELSE /\ inflight' = prompt.messages
                /\ calls' = calls + 1
                /\ trace' = [trace EXCEPT !.bodyRead = TRUE, !.bodyParsed = TRUE,
                                          !.keyRead = TRUE, !.promptBuilt = TRUE]
                /\ log' = Append(log, LogEntry("Calling AI gateway", 0))
                /\ pc' = "fetching"
                /\ UNCHANGED resp
    /\ req' = IF pc' = "fetching" THEN req ELSE [req EXCEPT !.body = NoBody]
    /\ UNCHANGED <<apiKey, gw>>
    /\ UNCHANGED outsideHandlers

\* A rejected fetch that is tried again (up to three attempts).
FetchRejects_Retry ==
    /\ pc = "fetching"
    /\ calls < 3
    /\ calls' = calls + 1
    /\ UNCHANGED <<apiKey, pc, req, inflight, gw, trace, log, resp>>
    /\ UNCHANGED outsideHandlers

\* await fetch(...) rejects: no response from the gateway.
FetchRejects ==
    /\ pc = "fetching"
    /\ inflight' = NoMessages
    /\ Throw(NetworkMessage)
    /\ req' = [req EXCEPT !.body = NoBody]
    /\ UNCHANGED <<apiKey, calls, gw, trace>>
    /\ UNCHANGED outsideHandlers

\* await fetch(...) resolves with the gateway's status line and headers.
FetchResolves(status) ==
    /\ pc = "fetching"
    /\ inflight' = NoMessages
    /\ gw' = GatewayResponse(status, "pending", <<>>)
    /\ pc' = IF Ok(status) THEN "readEnvelope" ELSE "readErrorText"
    /\ req' = [req EXCEPT !.body = NoBody]
    /\ UNCHANGED <<apiKey, calls, trace, log, resp>>
    /\ UNCHANGED outsideHandlers

\* if (!response.ok): await response.text() settles, then the status mapping.
ReadErrorText(readable) ==
    /\ pc = "readErrorText"
    /\ IF ~readable
       THEN /\ Throw(BodyReadMessage)
            /\ gw' = GatewayResponse(gw.status, "lost", <<>>)
       ELSE IF gw.status \in MappedStatuses(req.handler)
       THEN /\ log' = Append(log, LogEntry("AI gateway error:", gw.status))
            /\ resp' = MappedErrorResponse(gw.status, MappedMessage(gw.status))
            /\ gw' = GatewayResponse(gw.status, "text", <<>>)
            /\ pc' = "done"
       ELSE /\ log' = Append(Append(log, LogEntry("AI gateway error:", gw.status)),
                             LogEntry("Error in " \o req.handler \o ":", 0))
            /\ resp' = GatewayFailureResponse(gw.status)
            /\ gw' = GatewayResponse(gw.status, "text", <<>>)
            /\ pc' = "done"
    /\ UNCHANGED <<apiKey, req, inflight, calls, trace>>
    /\ UNCHANGED outsideHandlers

\* The bodies a 2xx response can turn out to have: one that cannot be read;
\* one that is not JSON, or is JSON null so that data.choices throws; an
\* envelope without choices[0].message.content; an envelope with a
\* completion text.
Envelopes ==
    {[kind |-> "unreadable", content |-> <<>>],
     [kind |-> "invalid", content |-> <<>>],
     [kind |-> "nochoices", content |-> <<>>]}
    \cup {[kind |-> "content", content |-> t] : t \in Texts}

\* await response.json() settles, then the extraction and the 200 response.
ReadEnvelope ==
    /\ pc = "readEnvelope"
    /\ \E envelope \in Envelopes :
       IF envelope.kind = "unreadable"
       THEN /\ Throw(BodyReadMessage)
            /\ gw' = GatewayResponse(gw.status, "lost", <<>>)
            /\ UNCHANGED trace
       ELSE IF envelope.kind = "invalid"
       THEN /\ Throw(EnvelopeParseMessage)
            /\ gw' = GatewayResponse(gw.status, "invalid", <<>>)
            /\ UNCHANGED trace
       ELSE /\ gw' = GatewayResponse(gw.status, envelope.kind, ContentOf(envelope))
            /\ trace' = [trace EXCEPT !.extracted = TRUE]
            /\ log' = Append(log, LogEntry("Successfully generated", 0))
            /\ resp' = SuccessResponse(ExtractResult(req.handler, ContentOf(envelope)))
            /\ pc' = "done"
    /\ UNCHANGED <<apiKey, req, inflight, calls>>
    /\ UNCHANGED outsideHandlers

\* The Response has been returned; the next request starts from scratch
\* (nothing is kept between invocations).
Finish ==
    /\ pc = "done"
    /\ pc' = "idle"
    /\ req' = NoRequest
    /\ inflight' = NoMessages
    /\ calls' = 0
    /\ gw' = NoGateway
    /\ trace' = NoTrace
    /\ log' = <<>>
    /\ resp' = NoResponse
    /\ UNCHANGED apiKey
    /\ UNCHANGED outsideHandlers

Next ==
    \/ \E h \in Handlers, method \in Methods :
         \E body \in Bodies(h, method) : Receive(h, method, body)
    \/ BodyRead
    \/ FetchRejects
    \/ \E status \in GatewayStatuses : FetchResolves(status)
    \/ \E readable \in BOOLEAN : ReadErrorText(readable)
    \/ ReadEnvelope
    \/ Finish

Spec == Init /\ [][Next]_vars

----------------------------------------------------------------------------
(* Vocabulary of the properties *)

\* The request has been answered after the gateway's 2xx envelope was read
\* and the completion text went through the extraction.
Extracted == pc = "done" /\ trace.extracted

\* The text has a "{" with a "}" somewhere after it.
HasBraceSpan(text) ==
    \E i, j \in 1..Len(text) : i < j /\ text[i] = "{" /\ text[j] = "}"

\* The text from the first "{" to the last "}".
OuterSpan(text) ==
    SubSeq(text, Min(Positions(text, "{")), Max(Positions(text, "}")))

WellFormedObject(text) == JSONParse(text).ok

\* The value v holds the raw completion text in the human-readable field of
\* the feature's fallback shape.
CarriesRawText(h, v, text) ==
    CASE h = "ai-support-chat" -> "reply" \in DOMAIN v /\ v.reply = text
      [] h = "ai-habit-insights" ->
           /\ "insights" \in DOMAIN v
           /\ Len(v.insights) = 1
           /\ v.insights[1].message = text
      [] h = "ai-knowledge-query" -> "answer" \in DOMAIN v /\ v.answer = text
      [] h = "ai-ats-optimizer" ->
           v = [score |-> 50, suggestions |-> <<>>, rawAnalysis |-> text]
      [] h = "ai-job-assistant" ->
           "coverLetter" \in DOMAIN v /\ v.coverLetter = text

\* The response is a 200 whose JSON body is the feature's fallback object
\* wrapping the raw text.
IsFallbackResponse(h, r, text) ==
    /\ r.status = 200
    /\ r.body.type = "json"
    /\ "error" \notin DOMAIN r.body.value
    /\ CarriesRawText(h, r.body.value, text)

----------------------------------------------------------------------------
(* C1 *)

\* C1: in every handler, a completion text (some prose) with no "{" ... "}"
\* span is answered with the feature's fallback object, which holds the raw
\* text verbatim (for the ATS optimizer exactly
\* {score: 50, suggestions: [], rawAnalysis: text}).
C1_NoSpanFallbackCarriesText ==
    (Extracted /\ gw.content # <<>> /\ ~HasBraceSpan(gw.content))
        => IsFallbackResponse(req.handler, resp, gw.content)

----------------------------------------------------------------------------
(* C2 *)

\* C2 as stated: a text holding a single well-formed JSON object, with
\* arbitrary prose before and after it, is answered with status 200 and
\* exactly that object.  The object is single when every well-formed object
\* of the text lies inside it.
C2_AnyProseAroundObject ==
    Extracted =>
        \A i, j \in 1..Len(gw.content) :
            (/\ i < j
             /\ WellFormedObject(SubSeq(gw.content, i, j))
             /\ \A a, b \in 1..Len(gw.content) :
                    (a < b /\ WellFormedObject(SubSeq(gw.content, a, b)))
                        => (i <= a /\ b <= j))
            => resp = SuccessResponse(JSONParse(SubSeq(gw.content, i, j)).value)

\* C2, amended: a text holding a well-formed JSON object, with no "{" in the
\* prose before it and no "}" in the prose after it, is answered with status
\* 200 and exactly that object.
C2_ObjectBetweenBraceFreeProse ==
    Extracted =>
        \A i, j \in 1..Len(gw.content) :
            (/\ i < j
             /\ WellFormedObject(SubSeq(gw.content, i, j))
             /\ \A a \in 1..(i - 1) : gw.content[a] # "{"
             /\ \A b \in (j + 1)..Len(gw.content) : gw.content[b] # "}")
            => resp = SuccessResponse(JSONParse(SubSeq(gw.content, i, j)).value)

\* A nested object with prose on one side and a closing-brace-free tail was
\* returned as it stands.
C2_Witness ==
    /\ Extracted
    /\ req.handler = "ai-job-assistant"
    /\ gw.content = <<"x", "{", "m", "}", "x">>
    /\ resp.status = 200
    /\ resp.body.value = ParsedObject(<<ScalarMember>>)

----------------------------------------------------------------------------
(* C3 *)

\* The text looks like JSON (it has a "{") and no object is parsed from it.
UnparseableJsonLooking(text) ==
    /\ Positions(text, "{") # {}
    /\ ~(HasBraceSpan(text) /\ WellFormedObject(OuterSpan(text)))

\* C3: in every handler, a completion text with an unbalanced, truncated or
\* otherwise unparseable JSON-looking span never gives an error response: the
\* handler answers 200 with a fallback object, and where JSON.parse threw on
\* the "{" ... "}" span it is the feature's fallback object holding the raw
\* text.
C3_UnparseableSpanFallsBack ==
    (Extracted /\ UnparseableJsonLooking(gw.content)) =>
        /\ resp.status = 200
        /\ resp.body.type = "json"
        /\ DOMAIN resp.body.value \cap {"error", "type", "members"} = {}
        /\ HasBraceSpan(gw.content)
               => IsFallbackResponse(req.handler, resp, gw.content)

\* The ATS optimizer answered a truncated nested object with its fallback.
C3_Witness ==
    /\ Extracted
    /\ req.handler = "ai-ats-optimizer"
    /\ gw.content = <<"{", "k", "{", "}">>
    /\ resp.status = 200
    /\ resp.body.value =
           [score |-> 50, suggestions |-> <<>>,
            rawAnalysis |-> <<"{", "k", "{", "}">>]

----------------------------------------------------------------------------
(* C4 *)

\* The gateway answered with this status and its response arrived whole
\* (the handler has read the error body).
GatewayAnswered(status) ==
    pc = "done" /\ gw.status = status /\ gw.body = "text"

----------------------------------------------------------------------------
(* C5 *)

----------------------------------------------------------------------------
(* C6 *)

\* The credential is not configured: the variable is unset or empty.
CredentialMissing == apiKey = Unset \/ apiKey = ""

\* C6: with the credential not configured, every handler answers every
\* request that is not OPTIONS with status 500, and no call to the gateway is
\* made for it.
C6_MissingCredentialNoCall ==
    (CredentialMissing /\ req.method \notin {"none", "OPTIONS"}) =>
        /\ calls = 0
        /\ inflight = NoMessages
        /\ pc \in {"readBody", "done"}
        /\ pc = "done" => resp.status = 500

\* A well-formed POST was refused for the missing credential.
C6_Witness ==
    /\ apiKey = ""
    /\ pc = "done"
    /\ req.method = "POST"
    /\ trace.bodyParsed
    /\ calls = 0
    /\ resp = CatchResponse("LOVABLE_API_KEY is not configured")

----------------------------------------------------------------------------
(* C7 *)

\* C7: in every handler, a gateway response that is not 2xx and not one of
\* the handler's mapped statuses (429 everywhere, 402 in the job assistant)
\* is answered with status 500 and a body {error: message}; the gateway's
\* status is not passed on.
C7_OtherFailuresBecome500 ==
    (/\ pc = "done"
     /\ gw.status # 0
     /\ ~(gw.status >= 200 /\ gw.status <= 299)
     /\ gw.status # 429
     /\ ~(gw.status = 402 /\ req.handler = "ai-job-assistant"))
    => /\ resp.status = 500
       /\ resp.body.type = "json"
       /\ DOMAIN resp.body.value = {"error"}
       /\ gw.body = "text" =>
              resp.body.value.error = "AI gateway error: " \o ToString(gw.status)

\* A gateway 503 was answered with a 500.
C7_Witness ==
    /\ pc = "done"
    /\ gw.status = 503
    /\ gw.body = "text"
    /\ resp.status = 500
    /\ resp.body.value.error = "AI gateway error: 503"

----------------------------------------------------------------------------
(* C8 *)

\* The CORS headers section 6 of the specification lists.
ListedCorsHeaders ==
    {<<"Access-Control-Allow-Origin", "*">>,
     <<"Access-Control-Allow-Headers",
       "authorization, x-client-info, apikey, content-type">>}

Preflight == pc = "done" /\ req.method = "OPTIONS"

\* C8 as stated: an OPTIONS request is answered with status 200, an empty
\* body and three CORS headers, among them the two section 6 lists, without
\* the body being read, the credential checked or the gateway called.
C8_PreflightThreeHeaders ==
    Preflight =>
        /\ resp.status = 200
        /\ resp.body = NullBody
        /\ ListedCorsHeaders \subseteq resp.headers
        /\ Cardinality(resp.headers) = 3
        /\ ~trace.bodyRead /\ ~trace.keyRead /\ calls = 0

\* C8, amended: an OPTIONS request is answered with status 200, an empty body
\* and exactly the two CORS headers section 6 lists, without the body being
\* read, the credential checked or the gateway called.
C8_PreflightTwoHeaders ==
    Preflight =>
        /\ resp.status = 200
        /\ resp.body = NullBody
        /\ resp.headers = ListedCorsHeaders
        /\ ~trace.bodyRead /\ ~trace.keyRead /\ calls = 0
        /\ inflight = NoMessages

\* A pre-flight request was answered while the credential is not configured.
C8_Witness ==
    /\ Preflight
    /\ apiKey = Unset
    /\ req.handler = "ai-habit-insights"
    /\ resp.status = 200

----------------------------------------------------------------------------
(* C9 *)

\* C9: every response of every handler, on every path (200 with the parsed
\* object, 200 with the fallback, 429, 402, 500), carries the CORS headers of
\* the pre-flight response.
C9_EveryResponseCarriesCors ==
    pc = "done" =>
        /\ resp.status \in {200, 402, 429, 500}
        /\ \A header \in ListedCorsHeaders : header \in resp.headers

\* A 500 produced by the outer catch carries them.
C9_Witness ==
    /\ pc = "done"
    /\ req.method = "POST"
    /\ resp.status = 500
    /\ ListedCorsHeaders \subseteq resp.headers
    /\ Cardinality(resp.headers) = 3

----------------------------------------------------------------------------
(* C10 *)

\* The request whose body is being read will have its prompt built: it is
\* not OPTIONS, its body parses to a value that can be destructured, the
\* credential is present and building the prompt does not throw.
WillCallGateway ==
    /\ pc = "readBody"
    /\ req.method # "OPTIONS"
    /\ req.body.kind = "object"
    /\ ~CredentialMissing
    /\ BuildPrompt(req.handler, req.body.fields).ok

\* C10: a handler calls the gateway at most once for a request: exactly once
\* when the method is not OPTIONS, the body parses, the credential is present
\* and the prompt is built, and not at all otherwise; a call that failed (a
\* non-2xx status or a network error) is not made again.
C10_AtMostOneGatewayCall ==
    /\ [](calls <= 1)
    /\ [](pc \in {"fetching", "readErrorText", "readEnvelope"} => calls = 1)
    /\ []((pc = "done" /\ (gw.status # 0 \/ trace.promptBuilt)) => calls = 1)
    /\ []((pc = "done" /\ ~trace.promptBuilt) => calls = 0)
    /\ [][(calls' = calls + 1) <=> WillCallGateway]_vars
    /\ [][calls' # calls => (calls' = calls + 1 \/ pc = "done")]_vars

\* A call that failed with a 503 was answered after that one call.
C10_Witness ==
    /\ pc = "done"
    /\ gw.status = 503
    /\ calls = 1
    /\ resp.status = 500

----------------------------------------------------------------------------
(* C11 *)

\* The response is a 500 whose body is {error: message}.
IsErrorResponse(r, message) ==
    /\ r.status = 500
    /\ r.body = JsonBody([error |-> message])

\* C11: every request that is not OPTIONS gets exactly one response, with
\* status 200, 429, 402 or 500 (402 from the job assistant only); an
\* exception raised while the body is parsed, the prompt is built, the gateway
\* is called or the gateway's body is read is caught and answered with status
\* 500 and the body {error: <the caught error's message>}.
C11_OneResponsePerRequest ==
    /\ [](pc = "done" <=> resp # NoResponse)
    /\ []((pc = "done" /\ req.method # "OPTIONS") =>
            /\ resp.status \in {200, 429, 402, 500}
            /\ resp.status = 402 => req.handler = "ai-job-assistant")
    /\ [][resp' # resp =>
            \/ resp = NoResponse /\ pc # "done" /\ pc' = "done"
            \/ resp' = NoResponse /\ pc = "done" /\ pc' = "idle"]_vars
    /\ [][(pc = "readBody" /\ req.body.kind = "invalid")
            => IsErrorResponse(resp', "Unexpected end of JSON input")]_vars
    /\ [][(pc = "readBody" /\ req.body.kind = "null")
            => IsErrorResponse(resp', "Cannot destructure property of null")]_vars
    /\ [][(/\ pc = "readBody" /\ req.body.kind = "object" /\ ~CredentialMissing
           /\ ~BuildPrompt(req.handler, req.body.fields).ok)
            => IsErrorResponse(resp', "map is not a function")]_vars
    /\ [][(pc = "fetching" /\ pc' = "done")
            => IsErrorResponse(resp', "error sending request")]_vars
    /\ [][(gw.body = "pending" /\ gw'.body = "lost")
            => IsErrorResponse(resp', "error reading a body from connection")]_vars
    /\ [][(gw.body = "pending" /\ gw'.body = "invalid")
            => IsErrorResponse(resp', "Unexpected token in JSON")]_vars

\* The habit-insights handler threw while building its prompt (habits is not
\* an array) and answered 500 with the TypeError's message.
C11_Witness ==
    /\ pc = "done"
    /\ req.handler = "ai-habit-insights"
    /\ req.method = "POST"
    /\ trace.keyRead
    /\ ~trace.promptBuilt
    /\ calls = 0
    /\ apiKey = "sk-key"
    /\ resp = CatchResponse("map is not a function")

----------------------------------------------------------------------------
(* C12 *)

\* The text occurs in the content of the message.
Contains(message, text) ==
    \E i \in 1..Len(message.content) : message.content[i] = text

\* The habit-insights handler has called the gateway for the request and the
\* call is outstanding.
HabitsCallOutstanding ==
    pc = "fetching" /\ req.handler = "ai-habit-insights"

\* The habits the request supplied.
SuppliedHabits == req.body.fields.habits.items

\* C12 as stated: in the habit-insights handler, the names and frequencies of
\* the habits supplied in the request appear in the system prompt of the
\* single gateway call.
C12_HabitsInSystemPrompt ==
    HabitsCallOutstanding =>
        /\ calls = 1
        /\ inflight[1].role = "system"
        /\ \A i \in 1..Len(SuppliedHabits) :
               /\ Contains(inflight[1], SuppliedHabits[i].name)
               /\ Contains(inflight[1], SuppliedHabits[i].frequency)

\* C12, amended: in the habit-insights handler, the names and frequencies of
\* the habits supplied in the request appear in the user message of the single
\* gateway call; the system prompt is a fixed text that holds nothing taken
\* from the request.
C12_HabitsInUserMessage ==
    HabitsCallOutstanding =>
        /\ calls = 1
        /\ Len(inflight) = 2
        /\ inflight[1] = [role |-> "system", content |-> <<"habits-system", "none">>]
        /\ inflight[2].role = "user"
        /\ \A i \in 1..Len(SuppliedHabits) :
               /\ Contains(inflight[2], SuppliedHabits[i].name)
               /\ Contains(inflight[2], SuppliedHabits[i].frequency)

\* The call for habits = [{name: "Meditate", frequency: "daily"}] is
\* outstanding and its user message names the habit and its frequency.
C12_Witness ==
    /\ HabitsCallOutstanding
    /\ SuppliedHabits = <<[name |-> "Meditate", frequency |-> "daily"]>>
    /\ calls = 1
    /\ Contains(inflight[2], "Meditate")
    /\ Contains(inflight[2], "daily")
    /\ ~Contains(inflight[1], "Meditate")

----------------------------------------------------------------------------
(* C19 *)

\* A well-formed object starts at the first "{" of the text and ends at j.
FirstObjectEndsAt(text, j) ==
    /\ Positions(text, "{") # {}
    /\ Min(Positions(text, "{")) < j
    /\ j <= Len(text)
    /\ WellFormedObject(SubSeq(text, Min(Positions(text, "{")), j))

\* C19: the extraction parses the span from the first "{" to the last "}" of
\* the completion text and nothing else: when the text holds a well-formed
\* object followed by other text and a second well-formed object, or a
\* well-formed object followed by prose with a "}" in it, the handler answers
\* with the feature's fallback object holding the raw text, not with the
\* first object.
C19_GreedySpanFallsBack ==
    Extracted =>
        \A j \in 1..Len(gw.content) :
            /\ (/\ FirstObjectEndsAt(gw.content, j)
                /\ \E a, b \in (j + 2)..Len(gw.content) :
                       a < b /\ WellFormedObject(SubSeq(gw.content, a, b)))
               => /\ IsFallbackResponse(req.handler, resp, gw.content)
                  /\ "members" \notin DOMAIN resp.body.value
            /\ (/\ FirstObjectEndsAt(gw.content, j)
                /\ \E b \in (j + 1)..Len(gw.content) : gw.content[b] = "}")
               => /\ IsFallbackResponse(req.handler, resp, gw.content)
                  /\ "members" \notin DOMAIN resp.body.value

\* The knowledge-query handler answered two objects separated by prose with
\* its fallback.
C19_Witness ==
    /\ Extracted
    /\ req.handler = "ai-knowledge-query"
    /\ gw.content = <<"{", "}", "x", "{", "}">>
    /\ resp.status = 200
    /\ resp.body.value =
           [answer |-> <<"{", "}", "x", "{", "}">>, citations |-> <<>>,
            confidence |-> "medium"]

----------------------------------------------------------------------------
(* C20 *)

\* The gateway answered 2xx with an envelope that has no choices[0], no
\* message or an empty content.
EmptyCompletion ==
    /\ pc = "done"
    /\ Ok(gw.status)
    /\ gw.body \in {"nochoices", "content"}
    /\ gw.content = <<>>

\* C20: when the gateway answers 200 with an envelope that has no choices, no
\* message or an empty content, the completion is the empty string and every
\* handler answers 200 with its fallback object whose text field is the empty
\* string; no error is reported.
C20_EmptyCompletionFallback ==
    EmptyCompletion =>
        /\ trace.extracted
        /\ IsFallbackResponse(req.handler, resp, <<>>)

----------------------------------------------------------------------------
(* The database: tables, row-level-security policies, foreign keys *)

Tables ==
    {"profiles", "resumes", "job_applications", "habits", "habit_logs",
     "habit_insights", "ats_scans", "support_conversations", "knowledge_base",
     "documents", "document_queries"}

Commands == {"SELECT", "INSERT", "UPDATE", "DELETE"}

\* The commands a table has a policy for: profiles FOR SELECT, FOR UPDATE and
\* FOR INSERT; habit_insights FOR SELECT; every other table FOR ALL.  With
\* row-level security enabled, a command without a policy is denied.
PolicyCommands(table) ==
    CASE table = "profiles" -> {"SELECT", "UPDATE", "INSERT"}
      [] table = "habit_insights" -> {"SELECT"}
      [] OTHER -> Commands

\* A row: its table, its primary key, the user its owner column names
\* (user_id; id for profiles), the row its foreign key references (NoRef
\* for none) and a payload column.
NoRef == 0
Row(table, id, owner, ref, data) ==
    [table |-> table, id |-> id, owner |-> owner, ref |-> ref, data |-> data]

\* USING (auth.uid() = user_id), and for profiles (auth.uid() = id).  A
\* policy with USING alone takes the same expression for WITH CHECK.
Permits(cmd, uid, row) ==
    cmd \in PolicyCommands(row.table) /\ uid = row.owner

\* REFERENCES public.habits(id) / public.resumes(id)
ReferencedTable(table) ==
    CASE table = "habit_logs" -> "habits"
      [] table \in {"job_applications", "ats_scans"} -> "resumes"
      [] OTHER -> "none"

\* habit_id is NOT NULL; the two resume_id columns may be null.
RefRequired(table) == table = "habit_logs"

\* A schema whose foreign keys all have ON DELETE SET NULL.
OnDelete_SetNullOnly(table) == "SET NULL"

\* ON DELETE CASCADE / ON DELETE SET NULL
OnDelete(table) ==
    IF table = "habit_logs" THEN "CASCADE" ELSE "SET NULL"

\* The foreign-key check of an inserted row; it looks at the referenced table
\* itself, whatever rows the policies let the inserting user see.
ForeignKeyHolds(rows, row) ==
    IF ReferencedTable(row.table) = "none" THEN row.ref = NoRef
    ELSE \/ row.ref = NoRef /\ ~RefRequired(row.table)
         \/ \E target \in rows :
                target.table = ReferencedTable(row.table) /\ target.id = row.ref

\* profiles.id is the primary key: one profile per user.
PrimaryKeyHolds(rows, row) ==
    row.table = "profiles" =>
        ~\E other \in rows : other.table = "profiles" /\ other.owner = row.owner

\* The keys gen_random_uuid() gives the rows of the database.
RowIds == {1, 2}

\* gen_random_uuid(): a key no row has.
FreshId(rows) ==
    CHOOSE id \in RowIds : \A row \in rows : row.id # id

References(row, target) ==
    /\ ReferencedTable(row.table) = target.table
    /\ row.ref = target.id

\* The table after target is deleted: the referential actions run on every
\* referencing row.
AfterDelete(rows, target) ==
    {IF References(row, target) THEN [row EXCEPT !.ref = NoRef] ELSE row :
        row \in {r \in rows \ {target} :
                   ~(References(r, target) /\ OnDelete(r.table) = "CASCADE")}}

DbInit ==
    /\ db \in {{}, {Row("profiles", 1, "A", NoRef, 0)}}
    /\ actor \in Users
    /\ seen = {}
    /\ HandlersAtRest
    /\ TrackerAtRest
    /\ ChatAtRest
    /\ ScreensAtRest
    /\ InsightsAtRest

\* SELECT * FROM table, as user uid: the rows the policy lets through.
Select(uid, table) ==
    /\ actor' = uid
    /\ seen' = {row \in db : row.table = table /\ Permits("SELECT", uid, row)}
    /\ UNCHANGED db
    /\ UNCHANGED outsideDb

\* INSERT INTO table, as user uid: refused when the policy's check, the
\* foreign key or the primary key fails.
Insert(uid, table, owner, ref) ==
    /\ \E id \in RowIds : \A row \in db : row.id # id
    /\ actor' = uid
    /\ seen' = {}
    /\ LET row == Row(table, FreshId(db), owner, ref, 0)
       IN  IF /\ Permits("INSERT", uid, row)
              /\ ForeignKeyHolds(db, row)
              /\ PrimaryKeyHolds(db, row)
           THEN db' = db \cup {row}
           ELSE db' = db
    /\ UNCHANGED outsideDb

\* UPDATE ... WHERE id = target.id, as user uid: the row must pass the policy
\* before the change and after it.
Update(uid, target, owner, data) ==
    /\ target \in db
    /\ actor' = uid
    /\ seen' = {}
    /\ LET new == [target EXCEPT !.owner = owner, !.data = data]
       IN  IF /\ Permits("UPDATE", uid, target)
              /\ Permits("UPDATE", uid, new)
              /\ PrimaryKeyHolds(db \ {target}, new)
           THEN db' = (db \ {target}) \cup {new}
           ELSE db' = db
    /\ UNCHANGED outsideDb

\* DELETE ... WHERE id = target.id, as user uid.
Delete(uid, target) ==
    /\ target \in db
    /\ actor' = uid
    /\ seen' = {}
    /\ IF Permits("DELETE", uid, target)
       THEN db' = AfterDelete(db, target)
       ELSE db' = db
    /\ UNCHANGED outsideDb

DbNext ==
    \/ \E uid \in Users, table \in Tables : Select(uid, table)
    \/ \E uid \in Users, table \in Tables, owner \in Users :
         \E ref \in {NoRef} \cup {row.id : row \in db} :
            Insert(uid, table, owner, ref)
    \/ \E uid \in Users, target \in db, owner \in Users, data \in {0, 1} :
         Update(uid, target, owner, data)
    \/ \E uid \in Users, target \in db : Delete(uid, target)

SpecDb == DbInit /\ [][DbNext]_vars

----------------------------------------------------------------------------
(* C13 *)

\* C13: on every table, an operation touches a row only when the
\* authenticated user is the row's owner: no operation of one user reads,
\* creates, changes or removes a row owned by another user.
C13_OwnerOnlyAccess ==
    /\ [](seen \subseteq {row \in db : row.owner = actor})
    /\ [][\A row \in db' \ db : row.owner = actor']_vars
    /\ [][\A row \in db \ db' : row.owner = actor']_vars

----------------------------------------------------------------------------
(* The Habit Tracker screen: toggleHabit *)

HabitIds == {"h1", "h2"}

\* new Date().toISOString().split('T')[0]
Today == "2025-12-11"

\* A row of habit_logs.
HabitLog(id, habit, uid, completed, date) ==
    [id |-> id, habit_id |-> habit, user_id |-> uid, completed |-> completed,
     logged_at |-> date]

\* No row: what logs.find gives when nothing matches.
NoLog == HabitLog(0, "none", "none", FALSE, "none")

\* The rows logs.find(l => l.habit_id === habitId && l.logged_at === today)
\* can give: a matching row of the list, undefined when there is none.
ExistingLogs(logs, habit) ==
    LET matches == {l \in logs : l.habit_id = habit /\ l.logged_at = Today}
    IN  IF matches = {} THEN {NoLog} ELSE matches

\* A call of toggleHabit suspended on its database write: the habit, the row
\* it found and the logs list its closure holds.
ToggleCall(habit, existingLog, logs) ==
    [habit |-> habit, existingLog |-> existingLog, logs |-> logs]

Remove(seq, i) == SubSeq(seq, 1, i - 1) \o SubSeq(seq, i + 1, Len(seq))

\* An update that negates the value the row holds when it is applied.
UpdatedLog_NegatesRow(row, existingLog) ==
    [row EXCEPT !.completed = ~row.completed]

\* .update({ completed: !existingLog.completed }).eq('id', existingLog.id)
UpdatedLog(row, existingLog) ==
    [row EXCEPT !.completed = ~existingLog.completed]

HabitsInit ==
    /\ TrackerAtRest
    /\ HandlersAtRest
    /\ DbAtRest
    /\ ChatAtRest
    /\ ScreensAtRest
    /\ InsightsAtRest

\* fetchLogs on mount: the rows of the last week, today's among them.
FetchLogs(tab) ==
    /\ tracker[tab].pending = <<>>
    /\ tracker' = [tracker EXCEPT ![tab].logs = habit_logs]
    /\ UNCHANGED <<habit_logs, toggles>>
    /\ UNCHANGED outsideHabits

\* toggleHabit(habitId) up to its await: looks for today's row of the habit
\* in the logs of the current render and sends the update or the insert.
ToggleHabit(tab, habit) ==
    /\ toggles < MaxToggles
    /\ toggles' = toggles + 1
    /\ \E existingLog \in ExistingLogs(tracker[tab].logs, habit) :
         tracker' = [tracker EXCEPT ![tab].pending =
                        Append(@, ToggleCall(habit, existingLog, tracker[tab].logs))]
    /\ UNCHANGED habit_logs
    /\ UNCHANGED outsideHabits

\* A toggleHabit that takes every write for a success.
HasError_Never(ok) == FALSE

\* if (error): the write gave an error.
HasError(ok) == ~ok

\* logs.map(l => l.id === existingLog.id ? { ...l, completed: !l.completed } : l)
ToggledLogs(logs, existingLog) ==
    {IF l.id = existingLog.id THEN [l EXCEPT !.completed = ~l.completed] ELSE l :
        l \in logs}

\* The write of the i-th outstanding toggle of the tab is applied and its
\* result comes back: setLogs from the closure's list unless there is an
\* error (and, for an insert, when the row came back); on an error a toast
\* and nothing else.  The tab keeps the error of the write that resolved.
WriteResolves(tab, i, ok) ==
    /\ i \in 1..Len(tracker[tab].pending)
    /\ LET call == tracker[tab].pending[i]
           data == HabitLog(Cardinality(habit_logs) + 1, call.habit, "A", TRUE, Today)
       IN  /\ habit_logs' =
                 IF ~ok THEN habit_logs
                 ELSE IF call.existingLog # NoLog
                 THEN {IF row.id = call.existingLog.id
                       THEN UpdatedLog(row, call.existingLog) ELSE row :
                          row \in habit_logs}
                 ELSE habit_logs \cup {data}
           /\ tracker' = [tracker EXCEPT
                 ![tab].pending = Remove(@, i),
                 ![tab].error = ~ok,
                 ![tab].logs =
                     IF HasError(ok) THEN @
                     ELSE IF call.existingLog # NoLog
                     THEN ToggledLogs(call.logs, call.existingLog)
                     ELSE IF ok THEN call.logs \cup {data}
                     ELSE @]
    /\ UNCHANGED toggles
    /\ UNCHANGED outsideHabits

HabitsNext ==
    \/ \E tab \in Tabs : FetchLogs(tab)
    \/ \E tab \in Tabs, habit \in HabitIds : ToggleHabit(tab, habit)
    \/ \E tab \in Tabs, i \in 1..MaxToggles, ok \in BOOLEAN : WriteResolves(tab, i, ok)

SpecHabits == HabitsInit /\ [][HabitsNext]_vars

----------------------------------------------------------------------------
(* C14 *)

\* C14: after any sequence of toggleHabit operations, overlapping ones
\* included, habit_logs holds at most one row per habit and day: a toggle
\* inserts a row only when the table has none for that habit and day.
C14_OneRowPerHabitPerDay ==
    /\ [](\A r1, r2 \in habit_logs :
            (r1.habit_id = r2.habit_id /\ r1.logged_at = r2.logged_at) => r1 = r2)
    /\ [][\A new \in habit_logs' :
            (\A old \in habit_logs : old.id # new.id) =>
                ~\E old \in habit_logs :
                    old.habit_id = new.habit_id /\ old.logged_at = new.logged_at]_vars

----------------------------------------------------------------------------
(* The Customer Support screen: sendMessage *)

\* What the user can have typed: nothing, a blank, two different messages.
\* A text is a sequence of characters, " " standing for white space.
InputValues == {<<>>, <<" ">>, <<"x">>, <<"y">>}

\* inputValue.trim()
RECURSIVE TrimStart(_)
TrimStart(text) ==
    IF text # <<>> /\ Head(text) = " " THEN TrimStart(Tail(text)) ELSE text

RECURSIVE TrimEnd(_)
TrimEnd(text) ==
    IF text # <<>> /\ text[Len(text)] = " "
    THEN TrimEnd(SubSeq(text, 1, Len(text) - 1)) ELSE text

Trim(text) == TrimEnd(TrimStart(text))

\* { role, content, timestamp }
ChatMessage(role, content) == [role |-> role, content |-> content]

\* The value of a property the object does not have.
Undefined == <<"<undefined>">>

\* obj.name for the objects a handler returns: a fallback object has the
\* fields the handler gave it; an object parsed from the completion has the
\* keys of the token grammar ("a", "k"), none of which the screen reads.
Get(obj, name) ==
    IF "members" \in DOMAIN obj THEN Undefined
    ELSE IF name \in DOMAIN obj THEN obj[name]
    ELSE Undefined

\* a || b for texts: undefined and the empty string are falsy.
OrElse(value, default) ==
    IF value = Undefined \/ value = <<>> THEN default ELSE value

ApologyMessage ==
    <<"I apologize, but I could not process your request. Please try again.">>

\* aiData.response || 'I apologize, but I could not process your request. ...'
AssistantContent(aiData) == OrElse(Get(aiData, "response"), ApologyMessage)

\* body: { messages: updatedMessages, conversationId: activeConversation.id }
InvokeBody(updatedMessages, conversationId) ==
    [messages |-> Field("array", <<>>), conversationId |-> Field("string", <<>>)]

\* What the handler h destructures from a body: a field the body does not
\* have is undefined.
Destructure(h, body) ==
    [n \in DOMAIN FieldShapes(h) |->
        IF n \in DOMAIN body THEN body[n] ELSE Field("absent", <<>>)]

\* The completion texts the gateway gives in this part of the model: plain
\* prose and a JSON object.
CompletionTexts == {<<"x">>, <<"{", "m", "}">>}

\* What supabase.functions.invoke('ai-support-chat', { body }) resolves to:
\* { data: null, error } when the call fails or the handler answers with a
\* status that is not 2xx (which it does when building the prompt from the
\* body throws), and { data, error: null } with the handler's 200 body.
InvokeResults(body) ==
    {[failed |-> TRUE, data |-> [error |-> <<"FunctionsHttpError">>]]}
    \cup (IF BuildPrompt("ai-support-chat", Destructure("ai-support-chat", body)).ok
          THEN {[failed |-> FALSE, data |-> ExtractResult("ai-support-chat", text)] :
                   text \in CompletionTexts}
          ELSE {})

\* inputValue.slice(0, 50) + (inputValue.length > 50 ? '...' : '')
SubjectOf(inputValue) ==
    SubSeq(inputValue, 1, IF Len(inputValue) > 50 THEN 50 ELSE Len(inputValue))
    \o (IF Len(inputValue) > 50 THEN <<"...">> ELSE <<>>)

NewConversationSubject == <<"New Conversation">>

\* A call of sendMessage suspended on an await, with the variables of its
\* closure.
SendCall(stage, activeConversation, inputValue, updatedMessages, body, aiData, finalMessages, newSubject) ==
    [stage |-> stage, activeConversation |-> activeConversation,
     inputValue |-> inputValue, updatedMessages |-> updatedMessages,
     body |-> body, aiData |-> aiData, finalMessages |-> finalMessages,
     newSubject |-> newSubject]

\* The keys gen_random_uuid() gives the rows of support_conversations.
ConversationIds == {1, 2}

ChatInit ==
    /\ ChatAtRest
    /\ HandlersAtRest
    /\ DbAtRest
    /\ TrackerAtRest
    /\ ScreensAtRest
    /\ InsightsAtRest

\* loadConversations on mount: the rows of the table, the first of them made
\* the active conversation (the order is that of updated_at, which the model
\* does not keep: any row can be first).
LoadConversations(tab) ==
    /\ chat[tab].call.stage = "none"
    /\ \E first \in (IF support_conversations = {} THEN {NoConversation}
                     ELSE support_conversations) :
         chat' = [chat EXCEPT ![tab].conversations = support_conversations,
                              ![tab].activeConversation = first]
    /\ UNCHANGED <<support_conversations, turns>>
    /\ UNCHANGED outsideChat

\* createNewConversation: inserts a row with no messages and makes it the
\* active conversation; on an error a toast and nothing else.
CreateNewConversation(tab, ok) ==
    /\ Cardinality(support_conversations) < Cardinality(ConversationIds)
    /\ LET data == Conversation(Cardinality(support_conversations) + 1,
                                NewConversationSubject, <<>>)
       IN  IF ok
           THEN /\ support_conversations' = support_conversations \cup {data}
                /\ chat' = [chat EXCEPT ![tab].conversations = @ \cup {data},
                                        ![tab].activeConversation = data]
           ELSE UNCHANGED <<support_conversations, chat>>
    /\ UNCHANGED turns
    /\ UNCHANGED outsideChat

\* onClick={() => setActiveConversation(conv)}
SelectConversation(tab, conv) ==
    /\ conv \in chat[tab].conversations
    /\ chat' = [chat EXCEPT ![tab].activeConversation = conv]
    /\ UNCHANGED <<support_conversations, turns>>
    /\ UNCHANGED outsideChat

\* sendMessage up to its first await: the guard, the optimistic update and
\* the call of the handler.
SendMessage(tab, inputValue) ==
    /\ turns < MaxTurns
    /\ LET activeConversation == chat[tab].activeConversation
           userMessage == ChatMessage("user", inputValue)
           updatedMessages == Append(activeConversation.messages, userMessage)
       IN  IF Trim(inputValue) = <<>> \/ activeConversation = NoConversation
              \/ chat[tab].isSending
           THEN UNCHANGED <<chat, turns>>
           ELSE /\ chat' = [chat EXCEPT
                      ![tab].activeConversation =
                          [activeConversation EXCEPT !.messages = updatedMessages],
                      ![tab].isSending = TRUE,
                      ![tab].call =
                          SendCall("invoking", activeConversation, inputValue,
                                   updatedMessages,
                                   InvokeBody(updatedMessages, activeConversation.id),
                                   <<>>, <<>>, <<>>)]
                /\ turns' = turns + 1
    /\ UNCHANGED support_conversations
    /\ UNCHANGED outsideChat

\* A catch block that shows the toast and leaves the active conversation
\* as it is.
Caught_NoRevert(tab) ==
    chat' = [chat EXCEPT
                ![tab].toast = "Error",
                ![tab].isSending = FALSE,
                ![tab].call = NoCall]

\* The catch and finally blocks of sendMessage: the toast, the active
\* conversation set to the conversation of the closure, isSending reset.
\* toast is what the last sendMessage of the tab that settled has shown.
Caught(tab) ==
    chat' = [chat EXCEPT
                ![tab].toast = "Error",
                ![tab].activeConversation = chat[tab].call.activeConversation,
                ![tab].isSending = FALSE,
                ![tab].call = NoCall]

\* await supabase.functions.invoke(...) settles: an error is thrown to the
\* catch block; otherwise the assistant's message is built and the update of
\* the row is sent.
InvokeReturns(tab) ==
    /\ chat[tab].call.stage = "invoking"
    /\ \E result \in InvokeResults(chat[tab].call.body) :
         LET call == chat[tab].call
             aiData == result.data
             aiMessage == ChatMessage("assistant", AssistantContent(aiData))
             finalMessages == Append(call.updatedMessages, aiMessage)
             newSubject == IF Len(call.activeConversation.messages) = 0
                           THEN SubjectOf(call.inputValue)
                           ELSE call.activeConversation.subject
         IN  IF result.failed \/ ~(Get(aiData, "error") \in {Undefined, <<>>})
             THEN Caught(tab)
             ELSE chat' = [chat EXCEPT ![tab].call =
                              SendCall("updating", call.activeConversation,
                                       call.inputValue, call.updatedMessages,
                                       call.body, aiData, finalMessages, newSubject)]
    /\ UNCHANGED <<support_conversations, turns>>
    /\ UNCHANGED outsideChat

\* await supabase.from('support_conversations').update(...).eq('id', ...)
\* settles: the row gets the messages and the subject of the closure and the
\* screen follows; on an error the catch block runs.
UpdateResolves(tab, ok) ==
    /\ chat[tab].call.stage = "updating"
    /\ LET call == chat[tab].call
           updated(conv) ==
               IF conv.id = call.activeConversation.id
               THEN [conv EXCEPT !.messages = call.finalMessages,
                                 !.subject = call.newSubject]
               ELSE conv
       IN  IF ok
           THEN /\ support_conversations' =
                      {updated(conv) : conv \in support_conversations}
                /\ chat' = [chat EXCEPT
                      ![tab].activeConversation = updated(call.activeConversation),
                      ![tab].conversations = {updated(conv) : conv \in @},
                      ![tab].toast = "none",
                      ![tab].isSending = FALSE,
                      ![tab].call = NoCall]
           ELSE /\ Caught(tab)
                /\ UNCHANGED support_conversations
    /\ UNCHANGED turns
    /\ UNCHANGED outsideChat

ChatNext ==
    \/ \E tab \in Tabs : LoadConversations(tab)
    \/ \E tab \in Tabs, ok \in BOOLEAN : CreateNewConversation(tab, ok)
    \/ \E tab \in Tabs : \E conv \in chat[tab].conversations :
         SelectConversation(tab, conv)
    \/ \E tab \in Tabs, inputValue \in InputValues : SendMessage(tab, inputValue)
    \/ \E tab \in Tabs : InvokeReturns(tab)
    \/ \E tab \in Tabs, ok \in BOOLEAN : UpdateResolves(tab, ok)

SpecChat == ChatInit /\ [][ChatNext]_vars

----------------------------------------------------------------------------
(* C15 *)

\* C15: the persisted messages of a support conversation only grow by
\* appending: every write of a conversation's messages leaves the list it
\* found in place and adds the user's message and then the assistant's
\* message; no turn, from whichever tab, removes or reorders a persisted
\* message.
C15_PersistedMessagesAppendOnly ==
    [][\A old \in support_conversations : \A new \in support_conversations' :
          (old.id = new.id /\ old.messages # new.messages) =>
              /\ Len(new.messages) = Len(old.messages) + 2
              /\ SubSeq(new.messages, 1, Len(old.messages)) = old.messages
              /\ new.messages[Len(old.messages) + 1].role = "user"
              /\ new.messages[Len(old.messages) + 2].role = "assistant"]_vars

----------------------------------------------------------------------------
(* C16 *)

\* The handler call of the tab's turn has succeeded and the turn is writing
\* its messages to the table.
TurnSucceeded(tab) == chat[tab].call.stage = "updating"

\* C16: the support chat screen calls the support-chat handler with the
\* fields the handler reads (message, conversationHistory, knowledgeBase),
\* and after a successful call the assistant message appended to the
\* conversation has the content of the reply field of the handler's response.
C16_ScreenAndHandlerAgree ==
    \A tab \in Tabs :
        /\ chat[tab].call.stage \in {"invoking", "updating"} =>
               {"message", "conversationHistory", "knowledgeBase"}
                   \subseteq DOMAIN chat[tab].call.body
        /\ TurnSucceeded(tab) =>
               LET call == chat[tab].call
                   last == call.finalMessages[Len(call.finalMessages)]
               IN  /\ last.role = "assistant"
                   /\ "reply" \in DOMAIN call.aiData
                          => last.content = call.aiData.reply

----------------------------------------------------------------------------
(* The Job Assistant, ATS Optimizer and Knowledge Workspace screens *)

\* useAuth().user of the signed-in session.
CurrentUser == "A"

\* What the user can have typed into a text field: nothing, a blank, a text.
FieldTexts == {<<>>, <<" ">>, <<"x">>}

\* 200 bodies whose object the completion spelled with an "error" key: one
\* with a message and one with the empty string.
ErrorBodies == {[error |-> <<"quota">>], [error |-> <<>>]}

\* What supabase.functions.invoke(h, { body }) resolves to for the bodies
\* these screens send (the handler builds its prompt from them without
\* throwing): { data: null, error } when the call fails or the handler
\* answers with a status that is not 2xx, { data, error: null } with the
\* handler's 200 body otherwise.
FunctionResults(h) ==
    {[failed |-> TRUE, data |-> NullData]}
    \cup {[failed |-> FALSE, data |-> d] :
            d \in {ExtractResult(h, text) : text \in CompletionTexts}
                  \cup ErrorBodies}

\* if (x): undefined and the empty string are falsy.
Truthy(value) == value # Undefined /\ value # <<>>

\* A screen that throws on the transport error only.
Throws_TransportOnly(result) == result.failed

\* if (error) throw error; if (data.error) throw new Error(data.error);
Throws(result) == result.failed \/ Truthy(Get(result.data, "error"))

\* data.name || default, for a default that is itself falsy or for a value
\* that is an array.
Default(obj, name, default) ==
    IF "members" \in DOMAIN obj \/ name \notin DOMAIN obj THEN default
    ELSE obj[name]

\* A command a screen sends to a table.
Command(table, cmd) == [table |-> table, cmd |-> cmd]

\* handleGenerate up to the await of the call: the button is disabled while
\* a generation runs.
HandleGenerate(jobDescription, resumeText) ==
    /\ runs < MaxRuns
    /\ ~job.isGenerating
    /\ runs' = runs + 1
    /\ job' = IF jobDescription = <<>> \/ resumeText = <<>>
              THEN [job EXCEPT !.toast = "Missing Information"]
              ELSE [job EXCEPT !.isGenerating = TRUE,
                               !.call = [stage |-> "invoking"]]
    /\ UNCHANGED <<tables, sent, ats, knowledge>>
    /\ UNCHANGED outsideScreens

\* handleGenerate from the result of the call to the end of finally.
GenerateReturns(result) ==
    /\ job.call.stage = "invoking"
    /\ job' = IF Throws(result)
              THEN [job EXCEPT !.toast = "Generation Failed",
                               !.isGenerating = FALSE, !.call = Idle]
              ELSE [job EXCEPT
                      !.results =
                          <<[bullets |-> Default(result.data, "bullets", <<>>),
                             coverLetter |->
                                 Default(result.data, "coverLetter", <<>>),
                             summary |-> Default(result.data, "summary", "")]>>,
                      !.toast = "Generation Complete",
                      !.isGenerating = FALSE, !.call = Idle]
    /\ UNCHANGED <<tables, sent, ats, knowledge, runs>>
    /\ UNCHANGED outsideScreens

\* handleAnalyze up to the await of the call.
HandleAnalyze(resumeText, targetRole) ==
    /\ runs < MaxRuns
    /\ ~ats.isAnalyzing
    /\ runs' = runs + 1
    /\ ats' = IF resumeText = <<>> \/ targetRole = <<>>
              THEN [ats EXCEPT !.toast = "Missing Information"]
              ELSE [ats EXCEPT !.isAnalyzing = TRUE,
                               !.call = [stage |-> "invoking"]]
    /\ UNCHANGED <<tables, sent, job, knowledge>>
    /\ UNCHANGED outsideScreens

\* handleAnalyze from the result of the call to the end of finally.
AnalyzeReturns(result) ==
    /\ ats.call.stage = "invoking"
    /\ ats' = IF Throws(result)
              THEN [ats EXCEPT !.toast = "Analysis Failed",
                               !.isAnalyzing = FALSE, !.call = Idle]
              ELSE [ats EXCEPT !.result = <<result.data>>,
                               !.toast = "Analysis Complete",
                               !.isAnalyzing = FALSE, !.call = Idle]
    /\ UNCHANGED <<tables, sent, job, knowledge, runs>>
    /\ UNCHANGED outsideScreens

\* The keys gen_random_uuid() gives the rows of documents.
DocumentIds == {1, 2}

\* A row of documents.
Document(id, user_id, title, content) ==
    [id |-> id, user_id |-> user_id, title |-> title, content |-> content]

\* loadDocuments, run by the effect on the signed-in user: the user's rows.
LoadDocuments(ok) ==
    /\ runs < MaxRuns
    /\ runs' = runs + 1
    /\ sent' = Append(sent, Command("documents", "SELECT"))
    /\ knowledge' =
         IF ok
         THEN [knowledge EXCEPT
                 !.documents = {d \in tables.documents : d.user_id = CurrentUser}]
         ELSE [knowledge EXCEPT !.toast = "Error"]
    /\ UNCHANGED <<tables, job, ats>>
    /\ UNCHANGED outsideScreens

\* addDocument: the two guards, the insert, and the new row put in front of
\* the list.
AddDocument(newDocTitle, newDocContent, newDocUrl, ok) ==
    /\ runs < MaxRuns
    /\ runs' = runs + 1
    /\ \E id \in DocumentIds :
         /\ \A d \in tables.documents : d.id # id
         /\ IF Trim(newDocTitle) = <<>>
            THEN /\ knowledge' = [knowledge EXCEPT !.toast = "Title Required"]
                 /\ UNCHANGED <<tables, sent>>
            ELSE IF Trim(newDocContent) = <<>> /\ Trim(newDocUrl) = <<>>
            THEN /\ knowledge' = [knowledge EXCEPT !.toast = "Content Required"]
                 /\ UNCHANGED <<tables, sent>>
            ELSE LET data ==
                       Document(id, CurrentUser, Trim(newDocTitle),
                                IF Trim(newDocContent) # <<>>
                                THEN Trim(newDocContent)
                                ELSE <<"URL: ">> \o Trim(newDocUrl))
                 IN  /\ sent' = Append(sent, Command("documents", "INSERT"))
                     /\ IF ok
                        THEN /\ tables' =
                                  [tables EXCEPT !.documents = @ \cup {data}]
                             /\ knowledge' =
                                  [knowledge EXCEPT
                                     !.documents = @ \cup {data},
                                     !.toast = "Document Added"]
                        ELSE /\ knowledge' = [knowledge EXCEPT !.toast = "Error"]
                             /\ UNCHANGED tables
    /\ UNCHANGED <<job, ats>>
    /\ UNCHANGED outsideScreens

\* deleteDocument(doc.id) for a document of the list.
DeleteDocument(docId, ok) ==
    /\ runs < MaxRuns
    /\ \E doc \in knowledge.documents : doc.id = docId
    /\ runs' = runs + 1
    /\ sent' = Append(sent, Command("documents", "DELETE"))
    /\ IF ok
       THEN /\ tables' =
                 [tables EXCEPT
                    !.documents =
                        {d \in @ : ~(d.id = docId /\ d.user_id = CurrentUser)}]
            /\ knowledge' =
                 [knowledge EXCEPT
                    !.documents = {d \in @ : d.id # docId},
                    !.toast = "Document Deleted"]
       ELSE /\ knowledge' = [knowledge EXCEPT !.toast = "Error"]
            /\ UNCHANGED tables
    /\ UNCHANGED <<job, ats>>
    /\ UNCHANGED outsideScreens

NoAnswerMessage == <<"No answer could be generated.">>

\* A row of document_queries.
DocumentQuery(id, user_id, query, response) ==
    [id |-> id, user_id |-> user_id, query |-> query, response |-> response]

\* handleQuery up to the await of the call: the input and the button are
\* disabled while a query runs.
HandleQuery(query) ==
    /\ runs < MaxRuns
    /\ ~knowledge.isQuerying
    /\ runs' = runs + 1
    /\ knowledge' =
         IF Trim(query) = <<>> THEN knowledge
         ELSE IF knowledge.documents = {}
         THEN [knowledge EXCEPT !.toast = "No Documents"]
         ELSE [knowledge EXCEPT !.isQuerying = TRUE, !.result = <<>>,
                                !.call = QueryCall("invoking", query, NoResult)]
    /\ UNCHANGED <<tables, sent, job, ats>>
    /\ UNCHANGED outsideScreens

\* handleQuery from the result of the call: the throw, or setResult and the
\* insert into document_queries.
QueryReturns(result) ==
    /\ knowledge.call.stage = "invoking"
    /\ IF Throws(result)
       THEN /\ knowledge' =
                 [knowledge EXCEPT
                    !.toast = "Query Failed", !.isQuerying = FALSE,
                    !.call = QueryCall("none", knowledge.call.query, result)]
            /\ UNCHANGED sent
       ELSE /\ knowledge' =
                 [knowledge EXCEPT
                    !.result =
                        <<[answer |-> OrElse(Get(result.data, "answer"),
                                             NoAnswerMessage),
                           citations |->
                               Default(result.data, "citations", <<>>),
                           actionItems |->
                               Default(result.data, "actionItems", <<>>)]>>,
                    !.call = QueryCall("inserting", knowledge.call.query, result)]
            /\ sent' = Append(sent, Command("document_queries", "INSERT"))
    /\ UNCHANGED <<tables, job, ats, runs>>
    /\ UNCHANGED outsideScreens

\* handleQuery after the insert, whose outcome it does not look at, to the
\* end of finally.
QueryInsertResolves(ok) ==
    /\ knowledge.call.stage = "inserting"
    /\ tables' =
         IF ok
         THEN [tables EXCEPT
                 !.document_queries =
                     @ \cup {DocumentQuery(Cardinality(@) + 1, CurrentUser,
                                           knowledge.call.query,
                                           Get(knowledge.call.result.data,
                                               "answer"))}]
         ELSE tables
    /\ knowledge' =
         [knowledge EXCEPT
            !.isQuerying = FALSE,
            !.call = QueryCall("none", knowledge.call.query,
                               knowledge.call.result)]
    /\ UNCHANGED <<sent, job, ats, runs>>
    /\ UNCHANGED outsideScreens

ScreensInit ==
    /\ ScreensAtRest
    /\ InsightsAtRest
    /\ HandlersAtRest
    /\ DbAtRest
    /\ TrackerAtRest
    /\ ChatAtRest

ScreensNext ==
    \/ \E jobDescription \in FieldTexts, resumeText \in FieldTexts :
         HandleGenerate(jobDescription, resumeText)
    \/ \E result \in FunctionResults("ai-job-assistant") : GenerateReturns(result)
    \/ \E resumeText \in FieldTexts, targetRole \in FieldTexts :
         HandleAnalyze(resumeText, targetRole)
    \/ \E result \in FunctionResults("ai-ats-optimizer") : AnalyzeReturns(result)
    \/ \E ok \in BOOLEAN : LoadDocuments(ok)
    \/ \E newDocTitle \in FieldTexts, newDocContent \in FieldTexts,
          newDocUrl \in FieldTexts, ok \in BOOLEAN :
         AddDocument(newDocTitle, newDocContent, newDocUrl, ok)
    \/ \E docId \in DocumentIds, ok \in BOOLEAN : DeleteDocument(docId, ok)
    \/ \E query \in FieldTexts : HandleQuery(query)
    \/ \E result \in FunctionResults("ai-knowledge-query") : QueryReturns(result)
    \/ \E ok \in BOOLEAN : QueryInsertResolves(ok)

SpecScreens == ScreensInit /\ [][ScreensNext]_vars

----------------------------------------------------------------------------
(* C17 *)

\* The step on which a generation completes.
GenerationCompletes ==
    /\ job.call.stage = "invoking"
    /\ job'.call.stage = "none"
    /\ job'.toast = "Generation Complete"

\* The step on which a scan completes.
ScanCompletes ==
    /\ ats.call.stage = "invoking"
    /\ ats'.call.stage = "none"
    /\ ats'.toast = "Analysis Complete"

\* C17: the step on which a generation of the Job Assistant completes adds
\* exactly one row, owned by the current user, to job_applications, and the
\* step on which a scan of the ATS Optimizer completes adds exactly one row,
\* owned by the current user, to ats_scans.
C17_SuccessCreatesRow ==
    /\ [][GenerationCompletes =>
            \E row \in tables'.job_applications \ tables.job_applications :
                /\ row.user_id = CurrentUser
                /\ tables'.job_applications =
                       tables.job_applications \cup {row}]_vars
    /\ [][ScanCompletes =>
            \E row \in tables'.ats_scans \ tables.ats_scans :
                /\ row.user_id = CurrentUser
                /\ tables'.ats_scans = tables.ats_scans \cup {row}]_vars

----------------------------------------------------------------------------
(* C18 *)

\* The number of inserts into document_queries among the commands sent.
QueryInserts(commands) ==
    Cardinality({i \in 1..Len(commands) :
                   commands[i] = Command("document_queries", "INSERT")})

\* The step on which the handler call of a query returns; the call's closure
\* holds the result from then on.
QueryCallReturns ==
    /\ knowledge.call.stage = "invoking"
    /\ knowledge'.call.stage # "invoking"

\* The 200 body has a field named error.
HasErrorField(result) == "error" \in DOMAIN result.data

\* Nothing but inserts is ever sent to document_queries.
OnlyInsertsSent ==
    \A i \in 1..Len(sent) :
        sent[i].table = "document_queries" => sent[i].cmd = "INSERT"

\* C18 as stated: a step sends one insert into document_queries when it is
\* the return of a handler call with no transport error and no 'error' field
\* in its body, and none otherwise (a rejected query, a failed call, any
\* other operation); no update or delete of document_queries is ever sent.
C18_InsertIffNoErrorField ==
    /\ []OnlyInsertsSent
    /\ [][QueryInserts(sent') =
            QueryInserts(sent)
            + (IF /\ QueryCallReturns
                  /\ ~knowledge'.call.result.failed
                  /\ ~HasErrorField(knowledge'.call.result)
               THEN 1 ELSE 0)]_vars

\* C18, amended: a step sends one insert into document_queries when it is
\* the return of a handler call with no transport error and no truthy
\* 'error' field in its body (an 'error' field holding the empty string
\* counts as success), and none otherwise; no update or delete of
\* document_queries is ever sent.
C18_InsertIffNoTruthyError ==
    /\ []OnlyInsertsSent
    /\ [][QueryInserts(sent') =
            QueryInserts(sent)
            + (IF /\ QueryCallReturns
                  /\ ~knowledge'.call.result.failed
                  /\ ~Truthy(Get(knowledge'.call.result.data, "error"))
               THEN 1 ELSE 0)]_vars

\* A query succeeded, its one insert was sent and has resolved, and the row
\* is in document_queries.
C18_Witness ==
    /\ knowledge.call.stage = "none"
    /\ ~knowledge.call.result.failed
    /\ "answer" \in DOMAIN knowledge.call.result.data
    /\ knowledge.result # <<>>
    /\ QueryInserts(sent) = 1
    /\ tables.document_queries # {}

----------------------------------------------------------------------------
(* C21 *)

\* The handler has read a JSON object as the body of a POST request and the
\* credential is configured: all that is left before the gateway call is
\* building the prompt from the fields.
AboutToBuildPrompt ==
    /\ pc = "readBody"
    /\ req.body.kind = "object"
    /\ ~CredentialMissing

\* C21: in every handler, whatever the request fields hold (absent, a string,
\* an object where an array is expected), building the prompt does not throw:
\* the gateway is called and the request is not answered at that point.
C21_PromptNeverFails ==
    [][AboutToBuildPrompt =>
         /\ pc' = "fetching"
         /\ calls' = calls + 1
         /\ resp' = NoResponse]_vars

----------------------------------------------------------------------------
(* C22 *)

\* The step on which the tab starts a toggleHabit call.
ToggleStarts(tab) == Len(tracker'[tab].pending) > Len(tracker[tab].pending)

\* The step on which a write of the tab resolves with an error.
WriteFails(tab) ==
    /\ Len(tracker'[tab].pending) < Len(tracker[tab].pending)
    /\ tracker'[tab].error

\* C22 as stated: toggleHabit changes the local logs when it starts, before
\* its write resolves, and a failed write leaves that change in place.
C22_OptimisticToggle ==
    [][\A tab \in Tabs :
         /\ ToggleStarts(tab) => tracker'[tab].logs # tracker[tab].logs
         /\ WriteFails(tab) => tracker'[tab].logs = tracker[tab].logs]_vars

\* C22, amended: toggleHabit changes neither the local logs nor the table
\* when it starts; the local logs change only when its write resolves
\* without an error, and a write that fails leaves the local logs and the
\* table as they were (the failure is shown in a toast), so a failed toggle
\* creates no difference between the screen and the database.
C22_LocalLogsFollowWrite ==
    [][\A tab \in Tabs :
         /\ ToggleStarts(tab) =>
                /\ tracker'[tab].logs = tracker[tab].logs
                /\ habit_logs' = habit_logs
         /\ WriteFails(tab) =>
                /\ tracker'[tab].logs = tracker[tab].logs
                /\ habit_logs' = habit_logs]_vars

\* A toggle of a habit that has a row for today failed: the tab's list and the
\* table still hold the same rows.
C22_Witness ==
    \E tab \in Tabs :
        /\ tracker[tab].error
        /\ tracker[tab].pending = <<>>
        /\ habit_logs # {}
        /\ tracker[tab].logs = habit_logs

----------------------------------------------------------------------------
(* C23 *)

\* The step on which a sendMessage call of the tab ends in its catch block:
\* the handler call or the update of the row failed.
SendFails(tab) ==
    /\ chat[tab].call.stage \in {"invoking", "updating"}
    /\ chat'[tab].call = NoCall
    /\ chat'[tab].toast = "Error"

\* The first messages of the list are those of the prefix.
StartsWith(messages, prefix) ==
    /\ Len(messages) >= Len(prefix)
    /\ SubSeq(messages, 1, Len(prefix)) = prefix

\* Nothing is retried: no call is outstanding, no turn was started, the
\* table is as it was.
NothingRetried(tab) ==
    /\ chat'[tab].call = NoCall
    /\ ~chat'[tab].isSending
    /\ turns' = turns
    /\ support_conversations' = support_conversations

\* C23 as stated: when the handler call or the update fails, a toast is
\* shown, nothing is retried, and the active conversation still holds the
\* user's message that sendMessage appended.
C23_FailureKeepsMessage ==
    [][\A tab \in Tabs :
         SendFails(tab) =>
             /\ NothingRetried(tab)
             /\ StartsWith(chat'[tab].activeConversation.messages,
                           chat[tab].call.updatedMessages)]_vars

\* C23, amended: when the handler call or the update fails, a toast is
\* shown, nothing is retried, and the optimistic change is rolled back: the
\* active conversation becomes the conversation as it was when sendMessage
\* was called, without the user's message.
C23_FailureRollsBack ==
    [][\A tab \in Tabs :
         SendFails(tab) =>
             /\ NothingRetried(tab)
             /\ chat'[tab].activeConversation = chat[tab].call.activeConversation
             /\ Len(chat'[tab].activeConversation.messages)
                    = Len(chat[tab].call.updatedMessages) - 1]_vars

\* A send in a conversation without messages failed: the toast is shown and
\* the active conversation has no messages again.
C23_Witness ==
    \E tab \in Tabs :
        /\ chat[tab].toast = "Error"
        /\ chat[tab].call = NoCall
        /\ chat[tab].activeConversation # NoConversation
        /\ chat[tab].activeConversation.messages = <<>>
        /\ turns > 0

----------------------------------------------------------------------------
(* C24 *)

\* The step on which the update sent by the i-th outstanding toggle of the
\* tab is applied without an error.
UpdateApplied(tab, i) ==
    /\ i \in 1..Len(tracker[tab].pending)
    /\ tracker[tab].pending[i].existingLog # NoLog
    /\ tracker'[tab].pending = Remove(tracker[tab].pending, i)
    /\ ~tracker'[tab].error

\* C24: an update of an existing habit log is applied whatever the row holds
\* at that moment (no conflict is detected) and leaves in the row the
\* negation of the value the tab had loaded, so the last update applied
\* decides the value; when the row no longer holds the loaded value, because
\* a concurrent toggle from the same loaded value was applied first, the
\* second update leaves the row as the first one made it: toggled once.
C24_LastWriteWins ==
    [][\A tab \in Tabs : \A i \in 1..MaxToggles :
         UpdateApplied(tab, i) =>
             LET loaded == tracker[tab].pending[i].existingLog
             IN  \A row \in habit_logs :
                    row.id = loaded.id =>
                       /\ [row EXCEPT !.completed = ~loaded.completed]
                              \in habit_logs'
                       /\ row.completed # loaded.completed =>
                              habit_logs' = habit_logs]_vars

\* Both tabs loaded today's row of a habit as completed and toggled it, both
\* updates were applied, and the row is not completed: toggled once.
C24_Witness ==
    /\ toggles = 3
    /\ \E row \in habit_logs : habit_logs = {row} /\ ~row.completed
    /\ \A tab \in Tabs :
         /\ tracker[tab].pending = <<>>
         /\ ~tracker[tab].error
         /\ tracker[tab].logs = habit_logs

----------------------------------------------------------------------------
(* C25 *)

\* The primary keys of the rows.
Ids(rows) == {row.id : row \in rows}

\* The step deletes the row: a row of the database whose key is gone.
Deletes(target) == target \in db /\ target.id \notin Ids(db')

\* The row is a habit log of the habit.
LogOf(row, target) ==
    row.table = "habit_logs" /\ target.table = "habits" /\ row.ref = target.id

\* The row is a job application or an ATS scan made from the resume.
MadeFrom(row, target) ==
    /\ row.table \in {"job_applications", "ats_scans"}
    /\ target.table = "resumes"
    /\ row.ref = target.id

\* C25 as stated: a step that deletes a row of a table (a habit, a resume, a
\* document, a conversation, ...) removes that row and leaves every other row
\* of every table unchanged.
C25_DeleteLeavesOthersUnchanged ==
    [][\A target \in db \ db' :
         Deletes(target) => db \ {target} \subseteq db']_vars

\* C25, amended: deleting a habit also deletes the habit logs that reference
\* it (ON DELETE CASCADE), and deleting a resume sets to null the resume
\* reference of the job applications and ATS scans made from it (ON DELETE SET
\* NULL, nothing else in them changes); apart from these two referential
\* actions, deleting a row leaves every other row of every table unchanged.
C25_ReferentialActions ==
    [][\A target \in db \ db' :
         (Deletes(target) /\ ~\E owner \in db : Deletes(owner) /\ LogOf(target, owner))
         =>
         /\ Ids(db') \subseteq Ids(db)
         /\ \A row \in db \ {target} :
               IF LogOf(row, target) THEN row.id \notin Ids(db')
               ELSE IF MadeFrom(row, target)
               THEN [row EXCEPT !.ref = NoRef] \in db'
               ELSE row \in db']_vars

\* Row 1 has been deleted and the job application that was inserted after it
\* is still there, with no resume.
C25_Witness ==
    \E row \in db :
        /\ db = {row}
        /\ row.table = "job_applications"
        /\ row.id = 2
        /\ row.ref = NoRef

----------------------------------------------------------------------------
(* The insights panel of the Habit Tracker screen: fetchInsights *)

\* if (obj.name), for a name that holds an array when it is there.
Present(obj, name) == "members" \notin DOMAIN obj /\ name \in DOMAIN obj

\* fetchInsights up to the await of the call: the buttons are disabled while
\* insights are fetched.
FetchInsights ==
    /\ runs < MaxRuns
    /\ ~insight.fetchingInsights
    /\ runs' = runs + 1
    /\ insight' = IF insight.habits = {}
                  THEN [insight EXCEPT !.toast = "Add some habits first"]
                  ELSE [insight EXCEPT !.fetchingInsights = TRUE,
                                       !.call = [stage |-> "invoking"]]
    /\ UNCHANGED <<tables, sent, job, ats, knowledge>>
    /\ UNCHANGED outsideInsights

\* A fetchInsights without its finally block: the flag is reset on the
\* success path only.
InsightsReturn_NoFinally(result) ==
    /\ insight.call.stage = "invoking"
    /\ insight' = IF result.failed
                  THEN [insight EXCEPT !.toast = "Error", !.call = Idle]
                  ELSE [insight EXCEPT !.fetchingInsights = FALSE,
                                       !.call = Idle]
    /\ UNCHANGED screenVars
    /\ UNCHANGED outsideInsights

\* fetchInsights from the result of the call to the end of finally.
InsightsReturn(result) ==
    /\ insight.call.stage = "invoking"
    /\ insight' = IF result.failed
                  THEN [insight EXCEPT !.toast = "Error",
                                       !.fetchingInsights = FALSE,
                                       !.call = Idle]
                  ELSE IF Present(result.data, "insights")
                  THEN [insight EXCEPT !.insights = result.data.insights,
                                       !.toast = "Insights Updated",
                                       !.fetchingInsights = FALSE,
                                       !.call = Idle]
                  ELSE [insight EXCEPT !.fetchingInsights = FALSE,
                                       !.call = Idle]
    /\ UNCHANGED screenVars
    /\ UNCHANGED outsideInsights

----------------------------------------------------------------------------
(* The five screen actions that call a handler, side by side *)

\* The user's data when the screens mount: one document, one conversation
\* without messages, one habit; the screens have loaded their rows, or none
\* of them has yet.
StoredDocument == Document(1, CurrentUser, <<"x">>, <<"x">>)
StoredConversation == Conversation(1, NewConversationSubject, <<>>)

\* The tab the user works in.
FirstTab == 1

\* The paths of the five pages with an action that calls a handler; a tab
\* shows one page at a time.
Routes ==
    {"/job-assistant", "/ats-optimizer", "/knowledge", "/habits", "/support"}

\* What a handler call of these screens resolves to: a failure, or the 200
\* body the handler makes of a completion in plain prose.
Outcomes(h) ==
    {[failed |-> TRUE, data |-> NullData],
     [failed |-> FALSE, data |-> ExtractResult(h, <<"x">>)]}

LoadingInit ==
    /\ HandlersAtRest
    /\ DbAtRest
    /\ TrackerAtRest
    /\ tables = [documents |-> {StoredDocument}, document_queries |-> {},
                 job_applications |-> {}, ats_scans |-> {}]
    /\ sent = <<>>
    /\ job = [isGenerating |-> FALSE, results |-> <<>>, toast |-> "none",
              call |-> Idle]
    /\ ats = [isAnalyzing |-> FALSE, result |-> <<>>, toast |-> "none",
              call |-> Idle]
    /\ runs = 0
    /\ support_conversations = {StoredConversation}
    /\ turns = 0
    /\ route \in Routes
    /\ \E loaded \in BOOLEAN :
         /\ knowledge = [documents |->
                             IF loaded THEN {StoredDocument} ELSE {},
                         isQuerying |-> FALSE, result |-> <<>>,
                         toast |-> "none",
                         call |-> QueryCall("none", <<>>, NoResult)]
         /\ chat = [tab \in Tabs |->
                      [conversations |->
                           IF loaded THEN {StoredConversation} ELSE {},
                       activeConversation |->
                           IF loaded THEN StoredConversation ELSE NoConversation,
                       isSending |-> FALSE, toast |-> "none", call |-> NoCall]]
         /\ insight = [habits |-> IF loaded THEN {"h1"} ELSE {},
                       fetchingInsights |-> FALSE, insights |-> <<>>,
                       toast |-> "none", call |-> Idle]

\* The page the tab shows, and with it the actions the user can reach.
OnPage(path) == route = path

\* The actions of the page the tab shows.
LoadingNext ==
    \/ \E jobDescription \in FieldTexts, resumeText \in FieldTexts :
          OnPage("/job-assistant") /\ HandleGenerate(jobDescription, resumeText)
    \/ \E result \in Outcomes("ai-job-assistant") :
          OnPage("/job-assistant") /\ GenerateReturns(result)
    \/ \E resumeText \in FieldTexts, targetRole \in FieldTexts :
          OnPage("/ats-optimizer") /\ HandleAnalyze(resumeText, targetRole)
    \/ \E result \in Outcomes("ai-ats-optimizer") :
          OnPage("/ats-optimizer") /\ AnalyzeReturns(result)
    \/ \E query \in FieldTexts : OnPage("/knowledge") /\ HandleQuery(query)
    \/ \E result \in Outcomes("ai-knowledge-query") :
          OnPage("/knowledge") /\ QueryReturns(result)
    \/ \E ok \in BOOLEAN : OnPage("/knowledge") /\ QueryInsertResolves(ok)
    \/ OnPage("/habits") /\ FetchInsights
    \/ \E result \in Outcomes("ai-habit-insights") :
          OnPage("/habits") /\ InsightsReturn(result)
    \/ \E inputValue \in InputValues :
          OnPage("/support") /\ SendMessage(FirstTab, inputValue)
    \/ OnPage("/support") /\ InvokeReturns(FirstTab)
    \/ \E ok \in BOOLEAN : OnPage("/support") /\ UpdateResolves(FirstTab, ok)

\* Every promise a screen awaits settles: the handler call resolves or
\* rejects, and so does the database write that follows it.
LoadingFairness ==
    /\ WF_vars(\E result \in Outcomes("ai-job-assistant") :
                  GenerateReturns(result))
    /\ WF_vars(\E result \in Outcomes("ai-ats-optimizer") :
                  AnalyzeReturns(result))
    /\ WF_vars(\E result \in Outcomes("ai-knowledge-query") :
                  QueryReturns(result))
    /\ WF_vars(\E ok \in BOOLEAN : QueryInsertResolves(ok))
    /\ WF_vars(\E result \in Outcomes("ai-habit-insights") :
                  InsightsReturn(result))
    /\ WF_vars(InvokeReturns(FirstTab))
    /\ WF_vars(\E ok \in BOOLEAN : UpdateResolves(FirstTab, ok))

SpecLoading == LoadingInit /\ [][LoadingNext]_vars /\ LoadingFairness

----------------------------------------------------------------------------
(* C26 *)

\* The loading flag of each action is set exactly while a call of the action
\* is between its guard and the end of its finally block.
FlagsFollowCalls ==
    /\ job.isGenerating <=> job.call.stage # "none"
    /\ ats.isAnalyzing <=> ats.call.stage # "none"
    /\ knowledge.isQuerying <=> knowledge.call.stage # "none"
    /\ insight.fetchingInsights <=> insight.call.stage # "none"
    /\ \A tab \in Tabs : chat[tab].isSending <=> chat[tab].call.stage # "none"

\* The loading flags.
Flags ==
    <<job.isGenerating, ats.isAnalyzing, knowledge.isQuerying,
      insight.fetchingInsights, [tab \in Tabs |-> chat[tab].isSending]>>

\* The step calls a handler.
CallsHandler ==
    \/ job.call.stage = "none" /\ job'.call.stage = "invoking"
    \/ ats.call.stage = "none" /\ ats'.call.stage = "invoking"
    \/ knowledge.call.stage = "none" /\ knowledge'.call.stage = "invoking"
    \/ insight.call.stage = "none" /\ insight'.call.stage = "invoking"
    \/ \E tab \in Tabs :
         chat[tab].call.stage = "none" /\ chat'[tab].call.stage = "invoking"

\* The step raises a loading flag.
RaisesFlag ==
    \/ job'.isGenerating /\ ~job.isGenerating
    \/ ats'.isAnalyzing /\ ~ats.isAnalyzing
    \/ knowledge'.isQuerying /\ ~knowledge.isQuerying
    \/ insight'.fetchingInsights /\ ~insight.fetchingInsights
    \/ \E tab \in Tabs : chat'[tab].isSending /\ ~chat[tab].isSending

\* The step is a call of a screen action that its guard rejected.
Rejected == runs' = runs + 1 /\ ~CallsHandler

\* C26 as stated: a loading flag is true only while the handler call of its
\* action is outstanding.
C26_FlagOnlyWhileInvoking ==
    /\ job.isGenerating => job.call.stage = "invoking"
    /\ ats.isAnalyzing => ats.call.stage = "invoking"
    /\ knowledge.isQuerying => knowledge.call.stage = "invoking"
    /\ insight.fetchingInsights => insight.call.stage = "invoking"
    /\ \A tab \in Tabs : chat[tab].isSending => chat[tab].call.stage = "invoking"

\* C26, amended: on handleGenerate, handleAnalyze, handleQuery, fetchInsights and
\* sendMessage the loading flag is true exactly while the call of the action
\* is in progress (from the handler call to the end of finally), a call that
\* the input guard rejects leaves every flag as it was, a flag is raised only
\* by a step that calls the handler, and a flag that is set is eventually
\* reset, whether the handler call returns or throws.
C26_LoadingFlags ==
    /\ []FlagsFollowCalls
    /\ [][Rejected => Flags' = Flags]_vars
    /\ [][RaisesFlag => CallsHandler]_vars
    /\ job.isGenerating ~> ~job.isGenerating
    /\ ats.isAnalyzing ~> ~ats.isAnalyzing
    /\ knowledge.isQuerying ~> ~knowledge.isQuerying
    /\ insight.fetchingInsights ~> ~insight.fetchingInsights
    /\ \A tab \in Tabs : chat[tab].isSending ~> ~chat[tab].isSending

\* On the Knowledge Workspace a query has failed and a later one has
\* succeeded, and the screen is idle again.
C26_Witness ==
    /\ route = "/knowledge"
    /\ ~knowledge.isQuerying
    /\ knowledge.call.stage = "none"
    /\ knowledge.toast = "Query Failed"
    /\ knowledge.result # <<>>

----------------------------------------------------------------------------
(* C27 *)

\* The support-chat handler has sent its request to the gateway.
SupportChatSent ==
    /\ req.handler = "ai-support-chat"
    /\ req.body.kind = "object"
    /\ inflight # NoMessages

\* The entries of the request's conversationHistory; none when it is absent.
SuppliedHistory ==
    IF req.body.fields.conversationHistory.shape = "array"
    THEN req.body.fields.conversationHistory.items
    ELSE <<>>

\* C27: the message list the support-chat handler sends to the gateway is the
\* system prompt first, then every entry of conversationHistory in its order
\* with only role and content kept, then the current user message last; with
\* an absent conversationHistory the list is exactly [system, user].
C27_MessageList ==
    SupportChatSent =>
        /\ Len(inflight) = Len(SuppliedHistory) + 2
        /\ inflight[1].role = "system"
        /\ inflight[1].content[1] = "support-system"
        /\ \A i \in 1..Len(SuppliedHistory) :
             /\ DOMAIN inflight[i + 1] = {"role", "content"}
             /\ inflight[i + 1].role = SuppliedHistory[i].role
             /\ inflight[i + 1].content = SuppliedHistory[i].content
        /\ inflight[Len(inflight)] =
             [role |-> "user",
              content |-> <<"message", req.body.fields.message.shape>>]
        /\ req.body.fields.conversationHistory.shape = "absent"
             => Len(inflight) = 2

\* A request with a two-entry history, an assistant turn after a user turn,
\* is on its way to the gateway.
C27_Witness ==
    /\ SupportChatSent
    /\ Len(SuppliedHistory) = 2
    /\ SuppliedHistory[1].role = "user"
    /\ SuppliedHistory[2].role = "assistant"
    /\ Len(inflight) = 4

----------------------------------------------------------------------------
(* C28 *)

\* The step ends a sendMessage call of the tab, on success or on failure.
SendCompletes(tab) ==
    chat[tab].call.stage # "none" /\ chat'[tab].call.stage = "none"

\* The user has selected another conversation than the one the call of the
\* tab in flight was sent in.
SelectedAnother(tab) ==
    /\ chat[tab].call.stage # "none"
    /\ chat[tab].activeConversation # NoConversation
    /\ chat[tab].activeConversation.id # chat[tab].call.activeConversation.id

\* C28: when the user has selected a different conversation while a
\* sendMessage call is in flight, the completion of the call, on success or on
\* failure, leaves the selected conversation active and does not put the
\* messages of the sent conversation into its view.
C28_CompletionKeepsSelection ==
    [][\A tab \in Tabs :
          (SelectedAnother(tab) /\ SendCompletes(tab)) =>
              chat'[tab].activeConversation = chat[tab].activeConversation]_vars

----------------------------------------------------------------------------
(* C29 *)

\* Only the first tab has used the Habit Tracker: the second one is as it
\* was when the page was opened.
OnlyFirstTabToggled ==
    tracker[2] = [logs |-> {}, pending |-> <<>>, error |-> FALSE]

\* No habit was toggled by two overlapping calls that both inserted a row.
OneRowPerHabit ==
    \A r1, r2 \in habit_logs : r1.habit_id = r2.habit_id => r1 = r2

\* C29: on the Habit Tracker screen, once the writes of all toggleHabit calls
\* have resolved, the local logs hold every toggle whose write succeeded: they
\* are the rows of habit_logs, also when two toggles on different habits
\* overlapped.
C29_NoToggleLost ==
    (OnlyFirstTabToggled /\ tracker[1].pending = <<>> /\ OneRowPerHabit) =>
        tracker[1].logs = habit_logs

----------------------------------------------------------------------------
(* C30 *)

\* The row of support_conversations with the key of conv after the step.
RowAfter(conv) ==
    CHOOSE row \in support_conversations' : row.id = conv.id

\* C30: the subject of a support conversation is changed only by the first
\* successful turn, the one sent when the conversation has no messages, which
\* sets it to the first 50 characters of the user's message (followed by
\* "..." when the message is longer); every later turn and every failed turn
\* leaves the subject as it is.
C30_SubjectSetOnce ==
    [][\A conv \in support_conversations :
          RowAfter(conv).subject # conv.subject =>
              /\ conv.messages = <<>>
              /\ RowAfter(conv).messages # <<>>
              /\ RowAfter(conv).subject =
                     SubjectOf(RowAfter(conv).messages[1].content)]_vars

====
